---- MODULE Spec2Model ----
(***************************************************************************)
(* A model of the abstraps IR framework (femtomc/abstraps):                *)
(*   - the Var index of a Region (SSACFG / Graph) and of the older ExtIR,  *)
(*   - the OperationBuilder and the verification of an Operation,          *)
(*   - the capability registry behind query_ref,                           *)
(*   - the OperationPassManager and the AnalysisManager.                   *)
(* Var ids and block indices are 0-based as in the source; TLA+ sequences  *)
(* are 1-based, so defs[v + 1] is the entry of Var v and blocks[b + 1] is  *)
(* block b.                                                                *)
(***************************************************************************)
EXTENDS Integers, Sequences, FiniteSets, TLC

VARIABLES
    holder,     \* which container the IR run constructed: "Region" or "ExtIR"
    region,     \* core::region::Region under construction
    ir,         \* ir::ExtIR under construction
    minted,     \* history: <<Var id returned by a push, delete_block calls made before it>>
    deletes,    \* history: the number of delete_block calls made on the ExtIR
    lastDelete, \* history: the delete_block call just made and the ExtIR before it
    builder,    \* core::builder::OperationBuilder under construction
    finished,   \* <<>>, or <<r>> with r the Result OperationBuilder::finish returned
    checked,    \* the last verify / get_value call made on the finished Operation
    lastBuild,  \* history: the push_arg / push_block call just made on the builder
    global,     \* GLOBAL_REGISTRY and GLOBAL_REGISTRY_VERSION
    local,      \* LOCAL_REGISTRY of each thread
    wlock,      \* the thread holding GLOBAL_REGISTRY's write lock, or "none"
    thread,     \* each thread's position in a query or a registration
    registered, \* history: the pairs of the dynamic_interfaces! calls that returned
    pm,         \* core::pass_manager::OperationPassManager<T>
    lastPush,   \* history: the last OperationPassManager::push call and its result
    lastWalk,   \* history: the PassManager::prewalk call and what it did
    am,         \* core::pass_manager::AnalysisManager
    lastAnalyze,\* history: the last AnalysisManager::analyze call
    applies,    \* history: per key, the AnalysisPass::apply calls that returned Ok
    lastAsk,    \* the last AnalysisManager::ask call and what it returned
    interp,     \* the LatticeInterpreterPass::apply calls of a run and their results
    lastJoin,   \* the last LatticeJoin::join call and what it returned
    machine,    \* interp::Interpreter, and the ExtIR it is stepped over
    lastStep    \* history: the last step / finish / set_analysis call on machine

vars ==
    <<holder, region, ir, minted, deletes, lastDelete,
      builder, finished, checked, lastBuild,
      global, local, wlock, thread, registered,
      pm, lastPush, lastWalk,
      am, lastAnalyze, applies, lastAsk,
      interp, lastJoin,
      machine, lastStep>>

----------------------------------------------------------------------------
(* Bounds of the IR model. *)

\* Region runs: at most MaxDefs Vars and MaxBlocks blocks.
MaxDefs == 4

MaxBlocks == 3

\* ExtIR runs: at most MaxIRDefs Vars, MaxIRBlocks blocks, MaxBranches
\* branches in all and MaxDeletes delete_block calls.
MaxIRDefs == 2

MaxIRBlocks == 2

MaxBranches == 1

MaxDeletes == 1

\* Delete runs (an ExtIR built and then taken apart): at most MaxDelDefs Vars,
\* MaxDelBlocks blocks, MaxDelBranches branches and MaxDelDeletes
\* delete_block calls.
MaxDelDefs == 2

MaxDelBlocks == 3

MaxDelBranches == 1

MaxDelDeletes == 2

\* Builder runs: at most MaxRegions regions, and MaxBuilderBlocks blocks and
\* MaxBuilderDefs Vars over all of them.
MaxRegions == 1

MaxBuilderBlocks == 1

MaxBuilderDefs == 2

\* Cursor runs (push_region, push_block, push_arg and push only): at most
\* MaxCursorBlocks blocks over the regions.
MaxCursorBlocks == 2

\* ... and at most MaxCursorRegions regions.
MaxCursorRegions == 2

\* Registry runs: at most MaxRegistrations dynamic_interfaces! calls.
MaxRegistrations == 2

\* Pass manager runs: at most MaxPasses passes and MaxManagers nested managers.
MaxPasses == 3

MaxManagers == 1

\* Analysis manager runs: at most MaxAnalyses successful analyses per key.
MaxAnalyses == 3

\* Interpreter runs: a Signature's env holds at most MaxEnv values.
MaxEnv == 2

\* Lattice runs: the Value(n) joined have n in 1..MaxValue.
MaxValue == 2

----------------------------------------------------------------------------
(* Helpers. *)

RECURSIVE SumSeq(_)
SumSeq(s) == IF s = <<>> THEN 0 ELSE Head(s) + SumSeq(Tail(s))

Range(s) == {s[i] : i \in 1..Len(s)}

RemoveAt(s, i) == [k \in 1..(Len(s) - 1) |-> IF k < i THEN s[k] ELSE s[k + 1]]

----------------------------------------------------------------------------
(* core::ir and the dialects -- the declarations handed to intrinsic! and  *)
(* attribute!.  A declaration is the pair of capability lists the macro    *)
(* receives; its expansion is modelled by Intrinsic_verify below.          *)

Ok == "Ok"

intrinsic_decl(name) ==
    CASE name = "Func" ->
           [defaults |-> <<"ProvidesSymbolAttr", "ProvidesLinkageAttr",
                            "FunctionLike", "RequiresTerminators">>,
            externs  |-> <<>>]
      [] name = "Addi" ->
           [defaults |-> <<"Elementwise", "Commutative">>,
            externs  |-> <<"NonVariadic">>]
      [] name = "Return" ->
           [defaults |-> <<"Terminator">>, externs |-> <<>>]
      [] name = "Invoke" ->
           [defaults |-> <<"ProvidesSymbolAttr">>,
            externs  |-> <<"NonVariadic">>]

\* attribute!(struct: key, trait: trt), indexed by the generated trait.
AttributeTraits == {"ProvidesSymbolAttr", "ProvidesLinkageAttr"}

attribute_decl(trt) ==
    CASE trt = "ProvidesSymbolAttr" ->
           [struct |-> "SymbolAttr", key |-> "builtin.symbol"]
      [] trt = "ProvidesLinkageAttr" ->
           [struct |-> "LinkageAttr", key |-> "builtin.linkage"]

\* The TypeId of dyn AttributeValue<T>.
AttributeValue(T) == "AttributeValue<" \o T \o ">"

\* An attribute map: every key maps to the struct stored under it, or to
\* Absent when the HashMap has no such key.
Absent == "absent"

NoAttributes ==
    LET AttributeKeys == {attribute_decl(t).key : t \in AttributeTraits}
    IN
    [k \in AttributeKeys |-> Absent]

----------------------------------------------------------------------------
(* core::interfaces -- the capability query: the interfaces! list of a     *)
(* type, then the registry of dynamic_interfaces! registrations.           *)

\* The $iface list each macro hands to interfaces!.
interfaces_list(T) ==
    \* intrinsic!(name: [ns, n], [defaults], extern: [externs]).  Func, Addi and
    \* Return are the repository's declarations; Invoke is a declaration with a
    \* fallible capability in each of the two lists, which the macro's grammar
    \* admits and no dialect happens to use.
    LET Intrinsics == {"Func", "Addi", "Return", "Invoke"}
    IN
    IF T \in Intrinsics
    THEN {"ObjectClone", "Intrinsic"}
            \cup Range(intrinsic_decl(T).defaults)
            \cup Range(intrinsic_decl(T).externs)
    ELSE IF T = "Signature"
    THEN {"ObjectClone", "Display", "AnalysisKey"}
    ELSE {"Attribute", "Display", "Debug", AttributeValue(T)}

\* Registry::find.
Registry_find(entries, T, trait_id) == <<T, trait_id>> \in entries

\* Mutant: the registry is mutated in the allocation it already has.
Arc_make_mut_inplace(g, l) == g.arc

\* Arc::make_mut on the global registry's Arc in with_registry_mut: the
\* allocation the global registry points to afterwards.  An Arc that a
\* thread-local also holds is cloned into a new allocation; one that only
\* the global registry holds is mutated where it is.
Arc_make_mut(g, l) ==
    IF \E t \in DOMAIN l : l[t].obtained /\ l[t].arc = g.arc
    THEN g.arc + 1
    ELSE g.arc

\* LocalRegistry::obtain: a clone of the global registry's Arc (its
\* allocation and what that holds) and the version.
LocalRegistry_obtain(g) ==
    [obtained |-> TRUE, entries |-> g.entries, version |-> g.version,
     arc |-> g.arc]

\* Mutant: the thread-local registry is never replaced once initialised.
with_registry_local_noupdate(l, g) ==
    IF ~l.obtained THEN LocalRegistry_obtain(g) ELSE l

\* with_registry's update check, for a thread whose LOCAL_REGISTRY is l:
\* the thread-local is initialised by obtain on first use and replaced when
\* the global version differs from the one it recorded.
with_registry_local(l, g) ==
    IF ~l.obtained \/ g.version # l.version THEN LocalRegistry_obtain(g) ELSE l

\* The arms of query_vtable that answer without the registry: the type
\* itself, dyn Object and the listed interfaces.
query_vtable_static(T, id) ==
    IF id = T THEN TRUE
    ELSE IF id = "Object" THEN TRUE
    ELSE id \in interfaces_list(T)

\* The pairs one dynamic_interfaces!(name: ifaces) call registers.
dynamic_interfaces(name, ifaces) ==
    {<<name, name>>, <<name, "Object">>} \cup {<<name, i>> : i \in ifaces}

----------------------------------------------------------------------------
(* core::ir -- BasicBlock and the operations pushed into blocks. *)

BasicBlock_default == [operands |-> <<>>, ops |-> <<>>]

\* A leaf Operation (no regions) as built by OperationBuilder::default +
\* set_operands + finish.
LeafOp(intr, operands) ==
    [intrinsic |-> intr, operands |-> operands, attributes |-> NoAttributes,
     regions |-> <<>>, successors |-> <<>>]

\* The operations offered to push_op in the IR runs.
OpInputs == {LeafOp("Addi", <<>>), LeafOp("Return", <<>>)}

----------------------------------------------------------------------------
(* core::region -- SSACFG, Graph and Region.  Each method is an operator   *)
(* from the receiver (and arguments) to [self |-> receiver afterwards,     *)
(* ret |-> returned value].  A call that panics (index out of bounds)      *)
(* aborts the program; the actions below are not enabled for it.           *)

SSACFG_default == [kind |-> "Directed", defs |-> <<>>, blocks |-> <<>>]

Graph_default == [kind |-> "Undirected", defs |-> <<>>, blocks |-> <<>>]

SSACFG_push_block(s, b) ==
    [self |-> [s EXCEPT !.blocks = Append(@, b)], ret |-> Len(s.blocks)]

\* Mutant: the position is taken from the block's parameter list.
SSACFG_push_op_argpos(s, blk, v) ==
    LET arg == Len(s.defs)
        len == Len(s.blocks[blk + 1].operands)
    IN  [self |-> [s EXCEPT !.blocks[blk + 1].ops = Append(@, v),
                            !.defs = Append(@, <<blk, len>>)],
         ret |-> arg]

SSACFG_push_op(s, blk, v) ==
    LET arg == Len(s.defs)
        len == Len(s.blocks[blk + 1].ops)
    IN  [self |-> [s EXCEPT !.blocks[blk + 1].ops = Append(@, v),
                            !.defs = Append(@, <<blk, len>>)],
         ret |-> arg]

Graph_has_block(g) == Len(g.blocks) # 0

Graph_push_block(g, b) == [self |-> [g EXCEPT !.blocks = <<b>>], ret |-> 0]

Region_len(r) == Len(r.defs)

Region_push_arg(r, ind) ==
    LET SSACFG_push_arg(s, blk) ==
            LET arg == Len(s.defs)
            IN  [self |-> [s EXCEPT !.defs = Append(@, <<blk, -1>>),
                                    !.blocks[blk + 1].operands = Append(@, arg)],
                 ret |-> arg]
    IN
    IF r.kind = "Directed"
    THEN LET c == SSACFG_push_arg(r, ind)
         IN  [self |-> c.self, ok |-> TRUE, ret |-> c.ret]
    ELSE [self |-> r, ok |-> FALSE, ret |-> "Can't push argument onto Graph region"]

Region_push_op(r, blk, op) ==
    LET Graph_push_op(g, v) ==
            LET arg == Len(g.defs)
                len == Len(g.blocks[1].ops)
            IN  [self |-> [g EXCEPT !.blocks[1].ops = Append(@, v),
                                    !.defs = Append(@, <<0, len>>)],
                 ret |-> arg]
    IN
    IF r.kind = "Directed" THEN SSACFG_push_op(r, blk, op) ELSE Graph_push_op(r, op)

\* Mutant: the Graph arm without the has_block check.
Region_push_block_unguarded(r, b) ==
    IF r.kind = "Directed"
    THEN [self |-> SSACFG_push_block(r, b).self, ok |-> TRUE]
    ELSE [self |-> Graph_push_block(r, b).self, ok |-> TRUE]

Region_push_block(r, b) ==
    IF r.kind = "Directed"
    THEN [self |-> SSACFG_push_block(r, b).self, ok |-> TRUE]
    ELSE IF Graph_has_block(r)
         THEN [self |-> r, ok |-> FALSE]
         ELSE [self |-> Graph_push_block(r, b).self, ok |-> TRUE]

----------------------------------------------------------------------------
(* ir::ExtIR -- the older, single-container IR with branches and           *)
(* delete_block.                                                           *)

ExtIR_BasicBlock_default == [args |-> <<>>, insts |-> <<>>, branches |-> <<>>]

ExtIR_default == [defs |-> <<>>, blocks |-> <<ExtIR_BasicBlock_default>>]

\* Mutant: the dead entries are dropped from defs instead of being marked.
ExtIR_delete_block_compacting(e, i) ==
    LET removed  == RemoveAt(e.blocks, i + 1)
        isKept(d) == d[1] # i
    IN  [e EXCEPT !.blocks = removed,
                  !.defs = SelectSeq(e.defs, isKept)]

ExtIR_delete_block(e, i) ==
    LET DeleteRewriteDef(d, i2) ==
            IF d[1] = i2 THEN <<-1, -1>>
            ELSE IF d[1] > i2 THEN <<d[1] - i2, d[2]>>
            ELSE d
    IN
    \* delete_block rewrites the branches at index 1.. of every remaining block
    \* (the loop is `for bi in 1..b.branches.len()`, so the branch at index 0 is
    \* skipped) and rewrites defs: entries of block i die, entries of a later
    \* block b get b - i.
    LET DeleteRewriteBranches(brs, i1) ==
            [bi \in 1..Len(brs) |->
                IF bi >= 2 /\ brs[bi].block >= i1
                THEN [brs[bi] EXCEPT !.block = @ - 1]
                ELSE brs[bi]]
    IN
    LET removed  == RemoveAt(e.blocks, i + 1)
        rewired  == IF i # Len(removed) + 1
                    THEN [k \in 1..Len(removed) |->
                            [removed[k] EXCEPT !.branches = DeleteRewriteBranches(@, i)]]
                    ELSE removed
    IN  [e EXCEPT !.blocks = rewired,
                  !.defs = [k \in 1..Len(e.defs) |-> DeleteRewriteDef(e.defs[k], i)]]

\* ExtIR::get_var_blockidx: <<>> for None, <<<<b, i>>>> for Some((b, i)).  A Var
\* past the end of defs reads as (-1, -1).
ExtIR_get_var_blockidx(e, v) ==
    LET d == IF v < Len(e.defs) THEN e.defs[v + 1] ELSE <<-1, -1>>
    IN  IF d[2] < 0 THEN <<>> ELSE <<d>>

\* ExtIR::get_instr: ret is <<>> for None and <<inst>> for Some((id, inst));
\* indexing blocks or insts past the end panics.
ExtIR_get_instr(e, id) ==
    LET at == ExtIR_get_var_blockidx(e, id)
    IN  IF at = <<>> THEN [panic |-> FALSE, ret |-> <<>>]
        ELSE IF \/ at[1][1] < 0
                \/ at[1][1] >= Len(e.blocks)
                \/ at[1][2] >= Len(e.blocks[at[1][1] + 1].insts)
        THEN [panic |-> TRUE, ret |-> <<>>]
        ELSE [panic |-> FALSE, ret |-> <<e.blocks[at[1][1] + 1].insts[at[1][2] + 1]>>]

\* ExtIR::get_vars_in_block: the Vars with a position >= 0 in the block, in
\* Var order.
ExtIR_get_vars_in_block(e, blockidx) ==
    LET listed(ind) ==
            /\ ExtIR_get_var_blockidx(e, ind) # <<>>
            /\ ExtIR_get_var_blockidx(e, ind)[1][1] = blockidx
        keep == [ind \in 1..Len(e.defs) |-> ind - 1]
    IN  SelectSeq(keep, listed)

----------------------------------------------------------------------------
(* core::region -- reading a region back: get_op, get_block_vars and the   *)
(* block iterator.                                                         *)

\* sort_by(|a, b| a.1.cmp(b.1)) over the (Var, entry) pairs of the Vars in S:
\* a stable sort, so equal entries keep their Var order.
RECURSIVE SortByEntry(_, _)
SortByEntry(defs, S) ==
    \* Ord on the (i32, i32) entries of defs.
    LET EntryLess(a, b) == a[1] < b[1] \/ (a[1] = b[1] /\ a[2] < b[2])
    IN
    IF S = {} THEN <<>>
    ELSE LET m == CHOOSE v \in S :
                    \A w \in S \ {v} :
                        \/ EntryLess(defs[v + 1], defs[w + 1])
                        \/ (defs[v + 1] = defs[w + 1] /\ v < w)
         IN  <<m>> \o SortByEntry(defs, S \ {m})

SSACFG_get_blocks(s) == s.blocks

\* The items ImmutableBlockIterator yields: get_op of each Var of ks, up to
\* the first None.
RECURSIVE IterItems(_, _)
IterItems(r, ks) ==
    \* Region::get_op: <<>> for None, <<op>> for Some((id, op)).
    LET Region_get_op(r2, id) ==
            \* get_var_blockidx: <<>> for None, <<b, i>> for Some((b, i)).
            LET get_var_blockidx(r1, v) ==
                    LET e == IF v < Len(r1.defs) THEN r1.defs[v + 1] ELSE <<-1, -1>>
                    IN  IF e[2] < 0 THEN <<>> ELSE e
            IN
            LET bi == get_var_blockidx(r2, id)
            IN  IF bi = <<>> THEN <<>> ELSE <<r2.blocks[bi[1] + 1].ops[bi[2] + 1]>>
    IN
    IF ks = <<>> THEN <<>>
    ELSE LET p == Region_get_op(r, Head(ks))
         IN  IF p = <<>> THEN <<>> ELSE <<[var |-> Head(ks), op |-> p[1]]>>
                                          \o IterItems(r, Tail(ks))

\* Mutant: the Vars of every block, as Graph::get_block_vars filters them.
SSACFG_get_block_vars_unfiltered(s, id) ==
    SortByEntry(s.defs, {v \in 0..(Len(s.defs) - 1) : s.defs[v + 1][2] >= 0})

\* SSACFG::get_block_vars.
SSACFG_get_block_vars(s, id) ==
    SortByEntry(s.defs, {v \in 0..(Len(s.defs) - 1) :
                            s.defs[v + 1][1] = id /\ s.defs[v + 1][2] >= 0})

\* SSACFG::get_vars_in_block: the scan of defs in Var order.
SSACFG_get_vars_in_block(s, blockidx) ==
    \* get_var_blockidx: <<>> for None, <<b, i>> for Some((b, i)).
    LET get_var_blockidx(s1, v) ==
            LET e == IF v < Len(s1.defs) THEN s1.defs[v + 1] ELSE <<-1, -1>>
            IN  IF e[2] < 0 THEN <<>> ELSE e
    IN
    LET keep(ind) ==
            /\ get_var_blockidx(s, ind) # <<>>
            /\ get_var_blockidx(s, ind)[1] = blockidx
            /\ s.defs[ind + 1][2] >= 0
    IN  SelectSeq([k \in 1..Len(s.defs) |-> k - 1], keep)

Region_get_block_iter(r, id) ==
    LET Graph_get_block_vars(g) ==
            SortByEntry(g.defs, {v \in 0..(Len(g.defs) - 1) : g.defs[v + 1][2] >= 0})
    IN
    IterItems(r, IF r.kind = "Directed" THEN SSACFG_get_block_vars(r, id)
                 ELSE Graph_get_block_vars(r))

----------------------------------------------------------------------------
(* Verification: the capability traits and the verify method intrinsic!    *)
(* synthesizes.  A verify returns Ok or the error it bails with.           *)

\* query_ref on a value of type T, in a run where no registration is in
\* flight: with_registry reads the thread's refreshed registry.
query_ref(T, id) ==
    \* Object::query_vtable as interfaces! generates it: TRUE for Some(vtable).
    \* `entries` is the registry find_in_registry reads.
    LET query_vtable(T1, id1, entries) ==
            IF query_vtable_static(T1, id1) THEN TRUE
            ELSE Registry_find(entries, T1, id1)
    IN
    query_vtable(T, id, with_registry_local(local["t1"], global).entries)

\* The first error of a sequence of results, or Ok: the chain of `?`s.
RECURSIVE FirstError(_)
FirstError(rs) ==
    IF rs = <<>> THEN Ok
    ELSE IF Head(rs) # Ok THEN Head(rs) ELSE FirstError(Tail(rs))

\* Mutant: only the presence of the key is checked.
attribute_verify_keyonly(trt, op) ==
    LET d == attribute_decl(trt)
    IN  IF op.attributes[d.key] = Absent
        THEN trt \o ": key missing"
        ELSE Ok

\* The verify method of the trait attribute! generates.
attribute_verify(trt, op) ==
    LET d == attribute_decl(trt)
    IN  IF op.attributes[d.key] = Absent
        THEN trt \o ": key missing"
        ELSE IF ~query_ref(op.attributes[d.key], AttributeValue(d.struct))
             THEN trt \o ": attribute does not provide the value"
             ELSE Ok

\* get_value / get_value_mut of the generated trait: the two unwraps.
Panic == "panic"

RECURSIVE Flatten(_)
Flatten(ss) == IF ss = <<>> THEN <<>> ELSE Head(ss) \o Flatten(Tail(ss))

\* Mutant: the first operation of each block is taken for its terminator.
RequiresTerminators_verify_first(op) ==
    FirstError(Flatten(
        [ri \in 1..Len(op.regions) |->
            [bi \in 1..Len(SSACFG_get_blocks(op.regions[ri])) |->
                LET items == Region_get_block_iter(op.regions[ri], bi - 1)
                IN  IF items = <<>> THEN "RequiresTerminators: block is empty"
                    ELSE IF ~query_ref(items[1].op.intrinsic, "Terminator")
                         THEN "RequiresTerminators: not a valid terminator"
                         ELSE Ok]]))

RequiresTerminators_verify(op) ==
    \* One iteration of RequiresTerminators' inner loop, on block ind of r.
    LET RequiresTerminators_block(r, ind) ==
            LET items == Region_get_block_iter(r, ind)
            IN  IF items = <<>> THEN "RequiresTerminators: block is empty"
                ELSE IF ~query_ref(items[Len(items)].op.intrinsic, "Terminator")
                     THEN "RequiresTerminators: not a valid terminator"
                     ELSE Ok
    IN
    FirstError(Flatten(
        [ri \in 1..Len(op.regions) |->
            [bi \in 1..Len(SSACFG_get_blocks(op.regions[ri])) |->
                RequiresTerminators_block(op.regions[ri], bi - 1)]]))

\* $trait::verify for each capability a declaration may list.
trait_verify(trt, op) ==
    \* impl NonVariadic for Addi (and Addf, Add): exactly two operands.
    LET NonVariadic_verify(op2) ==
            IF Len(op2.operands) # 2 THEN "NonVariadic: not 2 operands" ELSE Ok
    IN
    LET FunctionLike_verify(op1) ==
            IF Len(op1.regions) # 1 THEN "FunctionLike: multiple regions"
            ELSE IF op1.regions[1].kind = "Directed" THEN Ok
                 ELSE "FunctionLike: region type must be SSACFG"
    IN
    CASE trt \in AttributeTraits -> attribute_verify(trt, op)
      [] trt = "FunctionLike" -> FunctionLike_verify(op)
      [] trt = "RequiresTerminators" -> RequiresTerminators_verify(op)
      [] trt = "NonVariadic" -> NonVariadic_verify(op)
      [] OTHER -> Ok

\* Mutant: the extern capabilities are verified before the default ones.
Intrinsic_verify_externs_first(T, op) ==
    LET d == intrinsic_decl(T)
        all == d.externs \o d.defaults
    IN  FirstError([k \in 1..Len(all) |-> trait_verify(all[k], op)])

\* Intrinsic::verify as intrinsic! synthesizes it.
Intrinsic_verify(T, op) ==
    LET d == intrinsic_decl(T)
        all == d.defaults \o d.externs
    IN  FirstError([k \in 1..Len(all) |-> trait_verify(all[k], op)])

----------------------------------------------------------------------------
(* core::builder -- OperationBuilder.  Methods map the builder to          *)
(* [self |-> builder afterwards, ok, ret].                                 *)

\* The builds of the crate: with and without overflow checks.
Builds == {"debug", "release"}

OperationBuilder_default(intr) ==
    [latest |-> <<>>, cursor |-> <<0, 0>>, intrinsic |-> intr,
     operands |-> <<>>, attributes |-> NoAttributes, regions |-> <<>>,
     successors |-> <<>>]

OperationBuilder_push_operand(b, arg) == [b EXCEPT !.operands = Append(@, arg)]

\* get_region indexes regions[cursor.0 - 1]: it panics unless the cursor's
\* region component is in 1..regions.len().
get_region_defined(b) == b.cursor[1] >= 1 /\ b.cursor[1] <= Len(b.regions)

OperationBuilder_get_region(b) == b.regions[b.cursor[1]]

\* Mutant: the cursor advances whatever Region::push_block returns.
OperationBuilder_push_block_advancing(b, blk) ==
    LET c == Region_push_block(OperationBuilder_get_region(b), blk)
    IN  [self |-> [b EXCEPT !.regions[b.cursor[1]] = c.self,
                            !.cursor = <<b.cursor[1], b.cursor[2] + 1>>],
         ok |-> c.ok]

OperationBuilder_push_block(b, blk) ==
    LET c == Region_push_block(OperationBuilder_get_region(b), blk)
    IN  IF c.ok
        THEN [self |-> [b EXCEPT !.regions[b.cursor[1]] = c.self,
                                 !.cursor = <<b.cursor[1], b.cursor[2] + 1>>],
              ok |-> TRUE]
        ELSE [self |-> b, ok |-> FALSE]

\* Mutant: the new Var is made an operand whatever the block.
OperationBuilder_push_arg_operand(b, build) ==
    LET r == OperationBuilder_get_region(b)
        blk == b.cursor[2] - 1
        c == Region_push_arg(r, blk)
    IN  IF b.cursor[2] = 0 /\ build = "debug"
        THEN [self |-> b, ok |-> FALSE, panic |-> TRUE, ret |-> <<>>]
        ELSE IF r.kind = "Undirected"
        THEN [self |-> b, ok |-> FALSE, panic |-> FALSE, ret |-> <<>>]
        ELSE IF b.cursor[2] = 0 \/ blk >= Len(r.blocks)
        THEN [self |-> b, ok |-> FALSE, panic |-> TRUE, ret |-> <<>>]
        ELSE [self |-> OperationBuilder_push_operand(
                           [b EXCEPT !.regions[b.cursor[1]] = c.self], c.ret),
              ok |-> TRUE, panic |-> FALSE, ret |-> <<c.ret>>]

\* push_arg: the block index is cursor.1 - 1 on a usize, which for a cursor
\* at block 0 panics in the debug build and wraps to usize::MAX in the
\* release build.  Region::push_arg bails for a Graph whatever the index and
\* SSACFG::push_arg panics for an index that is no block.  The new Var is
\* also made an operand of the operation when the index is 0.
OperationBuilder_push_arg(b, build) ==
    LET r == OperationBuilder_get_region(b)
        blk == b.cursor[2] - 1
        c == Region_push_arg(r, blk)
    IN  IF b.cursor[2] = 0 /\ build = "debug"
        THEN [self |-> b, ok |-> FALSE, panic |-> TRUE, ret |-> <<>>]
        ELSE IF r.kind = "Undirected"
        THEN [self |-> b, ok |-> c.ok, panic |-> FALSE, ret |-> <<>>]
        ELSE IF b.cursor[2] = 0 \/ blk >= Len(r.blocks)
        THEN [self |-> b, ok |-> FALSE, panic |-> TRUE, ret |-> <<>>]
        ELSE [self |-> IF blk = 0
                       THEN OperationBuilder_push_operand(
                                [b EXCEPT !.regions[b.cursor[1]] = c.self], c.ret)
                       ELSE [b EXCEPT !.regions[b.cursor[1]] = c.self],
              ok |-> TRUE, panic |-> FALSE, ret |-> <<c.ret>>]

OperationBuilder_push_op(b, v) ==
    LET blk == b.cursor[2] - 1
        c == Region_push_op(OperationBuilder_get_region(b), blk, v)
    IN  [self |-> [b EXCEPT !.regions[b.cursor[1]] = c.self], ret |-> c.ret]

\* finish consumes the builder; <<>> stands for "not called".
OperationBuilder_finish(b) ==
    \* Operation::new: the fields are moved into the Operation as they are.
    LET Operation_new(intrinsic, operands, attributes, regions, successors) ==
            [intrinsic |-> intrinsic, operands |-> operands, attributes |-> attributes,
             regions |-> regions, successors |-> successors]
    IN
    [ok |-> TRUE,
     op |-> Operation_new(b.intrinsic, b.operands, b.attributes, b.regions,
                          b.successors)]

\* The block a push_arg / push_op at the cursor indexes exists.  With the
\* cursor's block component at 0 the index cursor.1 - 1 is out of range for a
\* Directed region in every build; an Undirected region never uses it.
cursor_block_defined(b) ==
    LET r == OperationBuilder_get_region(b)
    IN  IF r.kind = "Directed"
        THEN b.cursor[2] >= 1 /\ b.cursor[2] <= Len(r.blocks)
        ELSE Len(r.blocks) >= 1

----------------------------------------------------------------------------
(* core::pass_manager -- OperationPassManager<T> and AnalysisManager.      *)

\* AnalysisManager::new.
AnalysisManager_new == [cached |-> <<>>]

\* OperationPassManager::new(intr).
OperationPassManager_new(intr) ==
    [intrinsic_tag |-> intr, passes |-> <<>>, managers |-> <<>>,
     analysis_manager |-> <<AnalysisManager_new>>]

\* v.is::<T>() on the pass's target intrinsic.
Intrinsic_is(v, T) == v = T

\* Mutant: the pass is appended before its target is compared.
OperationPassManager_push_eager(m, pass) ==
    IF pass.target = <<>>
    THEN [self |-> [m EXCEPT !.passes = Append(@, pass)], ok |-> TRUE]
    ELSE IF Intrinsic_is(pass.target[1], m.intrinsic_tag)
         THEN [self |-> [m EXCEPT !.passes = Append(@, pass)], ok |-> TRUE]
         ELSE [self |-> [m EXCEPT !.passes = Append(@, pass)], ok |-> FALSE]

\* OperationPassManager::push.  pass.target is target_intrinsic(): <<>> for
\* None, <<intr>> for Some(intr).
OperationPassManager_push(m, pass) ==
    IF pass.target = <<>>
    THEN [self |-> [m EXCEPT !.passes = Append(@, pass)], ok |-> TRUE]
    ELSE IF Intrinsic_is(pass.target[1], m.intrinsic_tag)
         THEN [self |-> [m EXCEPT !.passes = Append(@, pass)], ok |-> TRUE]
         ELSE [self |-> m, ok |-> FALSE]

----------------------------------------------------------------------------
(* dialects::builtin -- the operations the passes walk, the traits         *)
(* PopulateSymbolTablePass queries, and the pass itself.                   *)

\* Intrinsic::get_traits of Module, Func, Call and the tests' Add.
get_traits(intr) ==
    CASE intr = "Module" -> {"ProvidesSymbolTable"}
      [] intr \in {"Func", "Call"} -> {"ProvidesSymbol"}
      [] OTHER -> {}

\* The attributes the builders of the dialect store: each is a struct with
\* its payload, NoAttr where the map has no such key.
NoAttr == [struct |-> "absent", value |-> {}]

SymbolAttr_new(name) == [struct |-> "SymbolAttr", value |-> {name}]

\* The dyn AttributeValue<_> each attribute struct lists in interfaces!.
dialect_attribute_value(struct) ==
    CASE struct = "SymbolAttr" -> {AttributeValue("String")}
      [] struct = "SymbolTableAttr" -> {AttributeValue("HashMap<String, Var>")}
      [] OTHER -> {}

\* The region of a module after push(child) for each child in turn.
RECURSIVE ModuleRegion(_)
ModuleRegion(children) ==
    IF children = <<>>
    THEN Region_push_block(Graph_default, BasicBlock_default).self
    ELSE Region_push_op(ModuleRegion(SubSeq(children, 1, Len(children) - 1)),
                        0, children[Len(children)]).self

RECURSIVE InsertAll(_, _)
InsertAll(tbl, v) ==
    \* HashMap::insert of <<s, v>> into a table of <<name, Var>> pairs.
    LET HashMap_insert(tbl1, s, v1) == {e \in tbl1 : e[1] # s} \cup {<<s, v1>>}
    IN
    IF v = <<>> THEN tbl
    ELSE InsertAll(HashMap_insert(tbl, Head(v)[1], Head(v)[2]), Tail(v))

\* The first loop of PopulateSymbolTablePass::apply over the items of block
\* 0: the <<name, Var>> pairs collected, and whether a get_value panicked.
RECURSIVE CollectSymbols(_, _)
CollectSymbols(op, items) ==
    \* ProvidesSymbol::get_value: <<name>>, or <<>> where an unwrap panics.
    LET ProvidesSymbol_get_value(op2) ==
            IF AttributeValue("String")
                  \in dialect_attribute_value(op2.attributes.symbol.struct)
            THEN <<CHOOSE n \in op2.attributes.symbol.value : TRUE>>
            ELSE <<>>
    IN
    \* ProvidesSymbol::verify.
    LET ProvidesSymbol_verify(op1) ==
            IF op1.attributes.symbol.struct = "absent"
            THEN "Operation attribute map does not contain the symbol key."
            ELSE IF AttributeValue("String")
                       \notin dialect_attribute_value(op1.attributes.symbol.struct)
            THEN "The attribute value indexed by symbol is not a Symbol."
            ELSE Ok
    IN
    IF items = <<>> THEN [v |-> <<>>, panic |-> FALSE]
    ELSE LET child == Head(items).op
             rest == CollectSymbols(op, Tail(items))
         IN  IF "ProvidesSymbol" \notin get_traits(child.intrinsic)
                   \/ ProvidesSymbol_verify(op) # Ok
             THEN rest
             ELSE IF ProvidesSymbol_get_value(child) = <<>>
             THEN [v |-> <<>>, panic |-> TRUE]
             ELSE [v |-> <<<<ProvidesSymbol_get_value(child)[1],
                            Head(items).var>>>> \o rest.v,
                   panic |-> rest.panic]

\* Mutant: the read guard of the first block is still alive at write().
PopulateSymbolTablePass_apply_guarded(op) ==
    [self |-> op, ret |-> "deadlock",
     lock |-> [readers |-> 1, writer |-> FALSE],
     write_at |-> <<[readers |-> 1, writer |-> FALSE]>>]

\* PopulateSymbolTablePass::apply: the operation afterwards and Ok, or Panic
\* where an index or an unwrap fails.  op_lock is followed as the guards
\* the thread holds on it, [readers, writer]: `lock` is op_lock when apply
\* returns or unwinds and `write_at` is op_lock when write() was called
\* (<<>> if it was not); a write() called while a guard is alive never
\* returns, which is the ret "deadlock".
PopulateSymbolTablePass_apply(op) ==
    \* Line 33, op_lock.read(): the guard behind `op` is alive.
    LET held == [readers |-> 1, writer |-> FALSE]
        \* Line 47: the block ends (or unwinds) and the guard is dropped.
        released == [held EXCEPT !.readers = @ - 1]
        \* Line 48, op_lock.write() on the lock as released: it never returns
        \* while a guard is alive.
        blocked == released.readers > 0 \/ released.writer
        writing == [released EXCEPT !.writer = TRUE]
        \* Line 58 (or unwinding): the write guard is dropped.
        done == [writing EXCEPT !.writer = FALSE]
    IN
    IF op.regions = <<>>
    THEN [self |-> op, ret |-> Panic, lock |-> released, write_at |-> <<>>]
    ELSE LET c == CollectSymbols(op, Region_get_block_iter(op.regions[1], 0))
         IN  IF c.panic
             THEN [self |-> op, ret |-> Panic, lock |-> released,
                   write_at |-> <<>>]
             ELSE IF blocked
             THEN [self |-> op, ret |-> "deadlock", lock |-> released,
                   write_at |-> <<released>>]
             ELSE IF \/ "ProvidesSymbolTable" \notin get_traits(op.intrinsic)
                     \/ AttributeValue("HashMap<String, Var>")
                           \notin dialect_attribute_value(op.attributes.symbols.struct)
             THEN [self |-> op, ret |-> Panic, lock |-> done,
                   write_at |-> <<released>>]
             ELSE [self |-> [op EXCEPT !.attributes.symbols.value =
                                            InsertAll(@, c.v)],
                   ret |-> Ok, lock |-> done, write_at |-> <<released>>]

\* OperationPass::apply: PopulateSymbolTablePass is the code above; what the
\* apply of another implementor returns is the argument `outcome`.
OperationPass_apply(pass, op, outcome) ==
    IF pass.name = "PopulateSymbolTablePass"
    THEN PopulateSymbolTablePass_apply(op)
    ELSE [self |-> op, ret |-> outcome,
          lock |-> [readers |-> 0, writer |-> FALSE], write_at |-> <<>>]

\* Mutant: a manager that accepts every operation.
PassManager_check_any(m, op) == TRUE

\* PopulateSymbolTablePass::check: Ok, or the error of the bail or of
\* ProvidesSymbolTable::verify.
PopulateSymbolTablePass_check(op) ==
    IF "ProvidesSymbolTable" \notin get_traits(op.intrinsic)
    THEN "Operation does not satisfy the ProvidesSymbolTable interface trait."
    ELSE IF op.attributes.symbols.struct = "absent"
    THEN "must provide a symbols key to satisfy the ProvidesSymbolTable trait."
    ELSE IF AttributeValue("HashMap<String, Var>")
               \notin dialect_attribute_value(op.attributes.symbols.struct)
    THEN "The attribute indexed by symbols does not provide a HashMap<String, Var> value."
    ELSE Ok

\* PassManager::check.
PassManager_check(m, op) == Intrinsic_is(op.intrinsic, m.intrinsic_tag)

\* The loop of prewalk from pass k on: each apply made, in order, with the
\* operation under the lock before and after it and what the apply did
\* with op_lock; `?` leaves at the first
\* result that is not Ok.
RECURSIVE ApplyPasses(_, _, _, _)
ApplyPasses(passes, k, op, outcomes) ==
    IF k > Len(passes) THEN <<>>
    ELSE LET \* The entry of the apply that returned r.
             made(r) ==
                 [pass |-> k, name |-> passes[k].name, ret |-> r.ret,
                  before |-> op, after |-> r.self, lock |-> r.lock,
                  write_at |-> r.write_at]
             \* The rest of the loop after the apply that returned r.
             rest(r) ==
                 IF r.ret # Ok THEN <<>>
                 ELSE ApplyPasses(passes, k + 1, r.self, outcomes)
             pass(r) == <<made(r)>> \o rest(r)
         IN  pass(OperationPass_apply(passes[k], op, outcomes[k]))

\* Mutant: the operation handed in is what a failed walk leaves.
OperationPassManager_prewalk_rollback(m, op, outcomes) ==
    IF ~PassManager_check(m, op)
    THEN [ret |-> "Operation intrinsic type is not the same as pass manager.",
          out |-> op, trace |-> <<>>, visited |-> <<>>,
          analysis_manager |-> m.analysis_manager]
    ELSE LET t == ApplyPasses(m.passes, 1, op, outcomes)
             last == IF t = <<>> THEN [ret |-> Ok, after |-> op] ELSE t[Len(t)]
         IN  [ret |-> last.ret,
              out |-> IF last.ret = Ok THEN last.after ELSE op,
              trace |-> t,
              visited |-> <<[manager |-> m.intrinsic_tag, path |-> <<>>]>>,
              analysis_manager |-> <<>>]

\* PassManager::prewalk: the result, the operation under the lock when the
\* walk ended, the applies made, the operations a manager was run on
\* (path <<>> is the root) and the manager's analysis_manager field when
\* prewalk returns (<<>> once take() has emptied it).
OperationPassManager_prewalk(m, op, outcomes) ==
    IF ~PassManager_check(m, op)
    THEN [ret |-> "Operation intrinsic type is not the same as pass manager.",
          out |-> op, trace |-> <<>>, visited |-> <<>>,
          analysis_manager |-> m.analysis_manager]
    ELSE LET t == ApplyPasses(m.passes, 1, op, outcomes)
             last == IF t = <<>> THEN [ret |-> Ok, after |-> op] ELSE t[Len(t)]
         IN  [ret |-> last.ret, out |-> last.after, trace |-> t,
              visited |-> <<[manager |-> m.intrinsic_tag, path |-> <<>>]>>,
              analysis_manager |-> <<>>]

----------------------------------------------------------------------------
(* core::absint and core::interfaces -- the keys of the analysis cache.    *)

\* Signature::eq: the symbols and the environments agree.
Signature_eq(s1, s2) == s1.symbol = s2.symbol /\ s1.env = s2.env

\* Box::new(key): the key moves to a heap address that no live box of the
\* cache occupies.
Box_new(c, key) ==
    LET live == {c[k][1].addr : k \in 1..Len(c)}
    IN  [addr |-> IF live = {} THEN 1
                  ELSE 1 + (CHOOSE a \in live : \A o \in live : o <= a),
         sig |-> key]

\* The entries of the cache, a sequence of <<boxed key, pass>>, that a HashMap
\* lookup of the boxed key finds: equal hash, then equal key.
Cache_find(c, key) ==
    \* Hash for dyn AnalysisKey (mopo!): the ObjectHash vtable of the concrete
    \* type if there is one, the address of the object otherwise.
    LET AnalysisKey_hash(k) ==
            \* Signature::hash: the symbol, then every Some(v) of the environment; a
            \* None entry feeds nothing to the hasher.
            LET Signature_hash(s) == <<s.symbol>> \o SelectSeq(s.env, LAMBDA v : v # "None")
            IN
            IF query_ref("Signature", "ObjectHash") THEN Signature_hash(k.sig)
            ELSE <<k.addr>>
    IN
    \* PartialEq for dyn AnalysisKey (mopo!): the ObjectEq vtable of the concrete
    \* type if there is one, pointer equality otherwise.
    LET AnalysisKey_eq(k1, k2) ==
            IF query_ref("Signature", "ObjectEq") THEN Signature_eq(k1.sig, k2.sig)
            ELSE k1.addr = k2.addr
    IN
    {k \in 1..Len(c) : /\ AnalysisKey_hash(c[k][1]) = AnalysisKey_hash(key)
                        /\ AnalysisKey_eq(c[k][1], key)}

\* HashMap::contains_key.
Cache_contains_key(c, key) == Cache_find(c, key) # {}

\* Mutant: the pass is cached whatever its apply returned.
AnalysisManager_analyze_caching(a, key, op, ok) ==
    [self |-> [a EXCEPT !.cached =
                  Append(@, <<Box_new(@, key), [key |-> key, result |-> <<>>]>>)],
     ok |-> ok, applied |-> TRUE]

\* AnalysisManager::analyze, with `applied` telling whether apply was called.
AnalysisManager_analyze(a, key, op, ok) ==
    \* HashMap::insert: the value of an entry found is replaced and the entry's
    \* key stays; otherwise the entry is new.
    LET Cache_insert(c, key2, pass) ==
            IF Cache_contains_key(c, key2)
            THEN [k \in 1..Len(c) |-> IF k \in Cache_find(c, key2)
                                      THEN <<c[k][1], pass>> ELSE c[k]]
            ELSE Append(c, <<key2, pass>>)
    IN
    \* AnalysisPass::apply: on success the pass holds the result for op.  Whether
    \* the interpreter succeeds on op is the argument `ok`.
    LET AnalysisPass_apply(pass, op2, ok1) ==
            IF ok1 THEN [self |-> [pass EXCEPT !.result = <<op2>>], ok |-> TRUE]
            ELSE [self |-> pass, ok |-> FALSE]
    IN
    \* AnalysisKey::to_pass for a Signature: a pass holding the key, no result.
    LET Signature_to_pass(key1, op1) == [key |-> key1, result |-> <<>>]
    IN
    LET pass == Signature_to_pass(key, op)
        r == AnalysisPass_apply(pass, op, ok)
    IN  IF r.ok
        THEN [self |-> [a EXCEPT !.cached =
                            Cache_insert(@, Box_new(@, key), r.self)],
              ok |-> TRUE, applied |-> TRUE]
        ELSE [self |-> a, ok |-> FALSE, applied |-> TRUE]

----------------------------------------------------------------------------
(* core::absint -- the lattice interpreter, with the ArithLattice and the   *)
(* propagation rules of the tests.  Option<L> is <<>> for None and <<l>>    *)
(* for Some(l).                                                             *)

\* enum ArithLattice: every element is a record of its variant, the i64 of
\* Value and the list of Union.
Bottom == [tag |-> "Bottom", n |-> 0, elems |-> <<>>]

Int64 == [tag |-> "Int64", n |-> 0, elems |-> <<>>]

Float64 == [tag |-> "Float64", n |-> 0, elems |-> <<>>]

Value(n) == [tag |-> "Value", n |-> n, elems |-> <<>>]

Union(v) == [tag |-> "Union", n |-> 0, elems |-> v]

\* LatticeJoin for ArithLattice, tests/concrete.rs: the arms in match order.
ArithLattice_join(self, other) ==
    IF self.tag = "Bottom" THEN other
    ELSE IF other.tag = "Bottom" THEN self
    ELSE IF {self.tag, other.tag} = {"Int64", "Float64"}
    THEN Union(<<other, self>>)
    ELSE IF self.tag = "Union" /\ other.tag = "Float64"
    THEN IF Float64 \in Range(self.elems) THEN self
         ELSE Union(Append(self.elems, Float64))
    ELSE IF self.tag = "Value" /\ other.tag = "Value" THEN Int64
    ELSE self

\* LatticeSemantics<ArithLattice> for Addi: <<l>> for Ok(l), <<>> for the
\* bail.
Addi_propagate(vtypes) ==
    IF Len(vtypes) # 2 THEN <<>>
    ELSE IF vtypes[1].tag = "Int64" /\ vtypes[2].tag = "Int64" THEN <<Int64>>
    ELSE IF {vtypes[1].tag, vtypes[2].tag} = {"Int64", "Float64"} THEN <<Float64>>
    ELSE IF vtypes[1].tag = "Float64" /\ vtypes[2].tag = "Float64" THEN <<Float64>>
    ELSE IF vtypes[1].tag = "Value" /\ vtypes[2].tag = "Value"
    THEN <<Value(vtypes[1].n + vtypes[2].n)>>
    ELSE <<>>

\* Mutant: a Bottom operand is returned as Int64.
Return_propagate_default(vtypes) ==
    IF Len(vtypes) # 1 THEN <<>>
    ELSE IF vtypes[1].tag = "Bottom" THEN <<Int64>>
    ELSE <<vtypes[1]>>

\* LatticeSemantics<ArithLattice> for Return.
Return_propagate(vtypes) ==
    IF Len(vtypes) = 1 THEN <<vtypes[1]>> ELSE <<>>

\* The TypeId of dyn LatticeSemantics<ArithLattice>.
LatticeSemantics == "LatticeSemantics<ArithLattice>"

RECURSIVE StepItems(_, _, _)
\* Mutant: a step that runs no operation and reports Ok.
StepItems_unchecked(env, items, build) == [env |-> env, ret |-> Ok]

\* The loop of Interpreter::step over the items of the active block.
StepItems(env, items, build) ==
    \* Interpreter::insert.  v.get_id() - 1 on a usize: for Var 0 the debug
    \* build panics and the release build wraps to usize::MAX, above any length.
    \* Vec::insert panics for an index above the length.
    LET Interpreter_insert(env3, v, l, build1) ==
            IF v = 0 /\ build1 = "debug" THEN [env |-> env3, panic |-> TRUE]
            ELSE IF v = 0 \/ Len(env3) < v - 1
            THEN [env |-> Append(env3, <<l>>), panic |-> FALSE]
            ELSE IF v > Len(env3) THEN [env |-> env3, panic |-> TRUE]
            ELSE [env |-> SubSeq(env3, 1, v) \o <<<<l>>>> \o SubSeq(env3, v + 1, Len(env3)),
                  panic |-> FALSE]
    IN
    \* Interpreter::resolve_to_lattice: <<vtypes>>, or <<>> if some get bails.
    LET Interpreter_resolve_to_lattice(env2, op) ==
            \* Interpreter::get: <<l>> for Ok(&l), <<>> for the bail.
            LET Interpreter_get(env1, v) ==
                    IF v < Len(env1) THEN env1[v + 1] ELSE <<>>
            IN
            IF \E k \in 1..Len(op.operands) : Interpreter_get(env2, op.operands[k]) = <<>>
            THEN <<>>
            ELSE <<[k \in 1..Len(op.operands) |-> Interpreter_get(env2, op.operands[k])[1]]>>
    IN
    \* lintr.propagate(o, vtypes) through the vtable of o's intrinsic.
    LET propagate(intr, vtypes) ==
            IF intr = "Addi" THEN Addi_propagate(vtypes) ELSE Return_propagate(vtypes)
    IN
    IF items = <<>> THEN [env |-> env, ret |-> Ok]
    ELSE LET v == Head(items).var
             o == Head(items).op
             vtypes == Interpreter_resolve_to_lattice(env, o)
             ltype == propagate(o.intrinsic, vtypes[1])
             ins == Interpreter_insert(env, v, ltype[1], build)
         IN  IF ~query_ref(o.intrinsic, LatticeSemantics)
             THEN [env |-> env,
                   ret |-> "Intrinsic fails to support lattice semantics."]
             ELSE IF vtypes = <<>>
             THEN [env |-> env, ret |-> "No type for SSA variable."]
             ELSE IF ltype = <<>>
             THEN [env |-> env, ret |-> "no rule"]
             ELSE IF ins.panic THEN [env |-> env, ret |-> Panic]
             ELSE StepItems(ins.env, Tail(items), build)

\* Mutant: the first value of the frame.
InterpreterFrame_get_ret_first(frame) ==
    IF frame.vs = <<>> THEN <<>> ELSE frame.vs[1]

\* InterpreterFrame::get_ret: the last value of the frame, an Option.
InterpreterFrame_get_ret(frame) ==
    IF frame.vs = <<>> THEN <<>> ELSE frame.vs[Len(frame.vs)]

\* Func.get_builder with push_arg for each parameter and push for each
\* operation of the body, finished.
RECURSIVE FuncRegion(_, _)
FuncRegion(params, ops) ==
    IF ops # <<>>
    THEN Region_push_op(FuncRegion(params, SubSeq(ops, 1, Len(ops) - 1)), 0,
                        ops[Len(ops)]).self
    ELSE IF params > 0 THEN Region_push_arg(FuncRegion(params - 1, ops), 0).self
    ELSE Region_push_block(SSACFG_default, BasicBlock_default).self

FuncWithBody(params, ops) ==
    [intrinsic |-> "Func", operands |-> [k \in 1..params |-> k - 1],
     attributes |-> NoAttributes, regions |-> <<FuncRegion(params, ops)>>,
     successors |-> <<>>]

----------------------------------------------------------------------------
(* The IR runs: one container is constructed and driven through its API.   *)

\* The threads of a run.
Threads == {"t1", "t2"}

\* The registry before any dynamic_interfaces! call; no thread-local yet.
Registry_default == [entries |-> {}, version |-> 0, arc |-> 0]

LocalRegistry_uninit ==
    [obtained |-> FALSE, entries |-> {}, version |-> 0, arc |-> 0]

\* A thread that is neither querying nor registering.
ThreadIdle ==
    [at |-> "idle", type |-> "none", id |-> "none", result |-> FALSE,
     known |-> FALSE, stale |-> FALSE]

\* The Signature keys of the analyses, as tests/typeinf.rs builds them.
AnalysisKeys ==
    {[symbol |-> "new_func1", env |-> <<"Int64", "Int64">>],
     [symbol |-> "new_func1", env |-> <<"Float64", "Int64">>]}

\* The value of a history variable before the call it records was made.
Unset(history) ==
    CASE history = "checked" ->
           [call |-> "none", on |-> "none", result |-> "none"]
      [] history = "lastBuild" ->
           [call |-> "none", before |-> <<>>, ok |-> FALSE, panic |-> FALSE,
            ret |-> <<>>]
      [] history = "lastDelete" ->
           [called |-> FALSE, i |-> 0, before |-> ExtIR_default]
      [] history = "lastPush" ->
           [called |-> FALSE, pass |-> [name |-> "none", target |-> <<>>],
            before |-> <<>>, ok |-> FALSE]
      [] history = "lastAnalyze" ->
           [called |-> FALSE, key |-> "none", wasCached |-> FALSE,
            applied |-> FALSE, ok |-> FALSE, before |-> <<>>]
      [] history = "lastAsk" ->
           [called |-> FALSE, key |-> "none", ret |-> <<>>]
      [] history = "lastWalk" ->
           [called |-> FALSE, op |-> <<>>, ret |-> "none", out |-> <<>>,
            trace |-> <<>>, visited |-> <<>>, check |-> FALSE,
            analysis_manager |-> <<>>]
      [] history = "interp" ->
           [run |-> FALSE, op |-> <<>>, build |-> "none", env1 |-> <<>>,
            env2 |-> <<>>, r1 |-> <<>>, r2 |-> <<>>]
      [] history = "lastJoin" ->
           [called |-> FALSE, impl |-> "none", a |-> Bottom, b |-> Bottom,
            ret |-> Bottom]
      [] history = "lastStep" ->
           [call |-> "none", before |-> <<>>, answer |-> <<>>, ret |-> "none",
            frame |-> <<>>, waited |-> <<>>, pending |-> <<>>]

\* The state of a group of objects in a run that does not use them: each is
\* as its constructor leaves it.
Idle(group) ==
    CASE group = "IR" ->
           /\ region = SSACFG_default
           /\ ir = ExtIR_default
           /\ minted = <<>>
           /\ deletes = 0
           /\ lastDelete = Unset("lastDelete")
      [] group = "Builder" ->
           /\ builder = OperationBuilder_default("Addi")
           /\ finished = <<>>
           /\ checked = Unset("checked")
           /\ lastBuild = Unset("lastBuild")
      [] group = "Threads" ->
           /\ wlock = "none"
           /\ thread = [t \in Threads |-> ThreadIdle]
           /\ registered = {}
      [] group = "Registry" ->
           /\ global = Registry_default
           /\ local = [t \in Threads |-> LocalRegistry_uninit]
           /\ wlock = "none"
           /\ thread = [t \in Threads |-> ThreadIdle]
           /\ registered = {}
      [] group = "PM" ->
           /\ pm = OperationPassManager_new("Module")
           /\ lastPush = Unset("lastPush")
           /\ lastWalk = Unset("lastWalk")
      [] group = "AM" ->
           /\ am = AnalysisManager_new
           /\ lastAnalyze = Unset("lastAnalyze")
           /\ applies = [k \in AnalysisKeys |-> 0]
           /\ lastAsk = Unset("lastAsk")
      [] group = "Interp" ->
           /\ interp = Unset("interp")
           /\ lastJoin = Unset("lastJoin")
      [] group = "Machine" ->
           /\ machine = <<>>
           /\ lastStep = Unset("lastStep")



InitRegion ==
    /\ holder = "Region"
    /\ region \in {SSACFG_default, Graph_default}
    /\ ir = ExtIR_default
    /\ minted = <<>>
    /\ deletes = 0
    /\ lastDelete = Unset("lastDelete")
    /\ Idle("Builder")
    /\ Idle("Registry")
    /\ Idle("PM")
    /\ Idle("AM")
    /\ Idle("Interp")
    /\ Idle("Machine")

InitExtIR ==
    /\ holder = "ExtIR"
    /\ region = SSACFG_default
    /\ ir = ExtIR_default
    /\ minted = <<>>
    /\ deletes = 0
    /\ lastDelete = Unset("lastDelete")
    /\ Idle("Builder")
    /\ Idle("Registry")
    /\ Idle("PM")
    /\ Idle("AM")
    /\ Idle("Interp")
    /\ Idle("Machine")

InitIR == InitRegion \/ InitExtIR

RegionPushBlock ==
    /\ holder = "Region"
    /\ Len(region.blocks) < MaxBlocks
    /\ \E b \in {BasicBlock_default} :
          LET c == Region_push_block(region, b)
          IN  /\ region' = c.self
    /\ UNCHANGED <<holder, ir, minted, deletes, lastDelete>>
    /\ UNCHANGED <<builder, finished, checked, lastBuild, global, local,
                   wlock, thread, registered, pm, lastPush, lastWalk, am,
                   lastAnalyze, applies, lastAsk, interp, lastJoin, machine,
                   lastStep>>

RegionPushArg ==
    /\ holder = "Region"
    /\ Len(region.defs) < MaxDefs
    /\ \E ind \in 0..(Len(region.blocks) - 1) :
          LET c == Region_push_arg(region, ind)
          IN  /\ region' = c.self
              /\ minted' = IF c.ok THEN Append(minted, <<c.ret, deletes>>) ELSE minted
    /\ UNCHANGED <<holder, ir, deletes, lastDelete>>
    /\ UNCHANGED <<builder, finished, checked, lastBuild, global, local,
                   wlock, thread, registered, pm, lastPush, lastWalk, am,
                   lastAnalyze, applies, lastAsk, interp, lastJoin, machine,
                   lastStep>>

RegionPushOp ==
    \* The block index a push_op on region r ends up indexing (Graph ignores blk).
    LET PushOpBlock(r, blk) == IF r.kind = "Directed" THEN blk ELSE 0
    IN
    /\ holder = "Region"
    /\ Len(region.defs) < MaxDefs
    /\ \E blk \in 0..(MaxBlocks - 1), op \in OpInputs :
          /\ PushOpBlock(region, blk) < Len(region.blocks)
          /\ LET c == Region_push_op(region, blk, op)
             IN  /\ region' = c.self
                 /\ minted' = Append(minted, <<c.ret, deletes>>)
    /\ UNCHANGED <<holder, ir, deletes, lastDelete>>
    /\ UNCHANGED <<builder, finished, checked, lastBuild, global, local,
                   wlock, thread, registered, pm, lastPush, lastWalk, am,
                   lastAnalyze, applies, lastAsk, interp, lastJoin, machine,
                   lastStep>>

\* The holders of an ExtIR and the bounds of their runs.
ExtIRBounds ==
    IF holder = "Delete"
    THEN [defs |-> MaxDelDefs, blocks |-> MaxDelBlocks,
          branches |-> MaxDelBranches, deletes |-> MaxDelDeletes]
    ELSE [defs |-> MaxIRDefs, blocks |-> MaxIRBlocks,
          branches |-> MaxBranches, deletes |-> MaxDeletes]

ExtIRPushArg ==
    LET ExtIR_push_arg(e, blk) ==
            LET arg == Len(e.defs)
            IN  [self |-> [e EXCEPT !.defs = Append(@, <<blk, -1>>),
                                    !.blocks[blk + 1].args = Append(@, arg)],
                 ret |-> arg]
    IN
    /\ holder \in {"ExtIR", "Delete"}
    /\ Len(ir.defs) < ExtIRBounds.defs
    /\ \E blk \in 0..(Len(ir.blocks) - 1) :
          LET c == ExtIR_push_arg(ir, blk)
          IN  /\ ir' = c.self
              /\ minted' = Append(minted, <<c.ret, deletes>>)
    /\ lastDelete' = Unset("lastDelete")
    /\ UNCHANGED <<holder, region, deletes>>
    /\ UNCHANGED <<builder, finished, checked, lastBuild, global, local,
                   wlock, thread, registered, pm, lastPush, lastWalk, am,
                   lastAnalyze, applies, lastAsk, interp, lastJoin, machine,
                   lastStep>>

ExtIRPushBlk ==
    LET ExtIR_push_blk(e) ==
            [self |-> [e EXCEPT !.blocks = Append(@, ExtIR_BasicBlock_default)],
             ret |-> Len(e.blocks)]
    IN
    /\ holder \in {"ExtIR", "Delete"}
    /\ Len(ir.blocks) < ExtIRBounds.blocks
    /\ ir' = ExtIR_push_blk(ir).self
    /\ lastDelete' = Unset("lastDelete")
    /\ UNCHANGED <<holder, region, minted, deletes>>
    /\ UNCHANGED <<builder, finished, checked, lastBuild, global, local,
                   wlock, thread, registered, pm, lastPush, lastWalk, am,
                   lastAnalyze, applies, lastAsk, interp, lastJoin, machine,
                   lastStep>>

ExtIRPushBranch ==
    LET ExtIR_push_branch(e, cond, from, to, args) ==
            \* Option<Var> is <<>> for None and <<v>> for Some(v).
            LET Branch_is_conditional(br) == br.cond # <<>>
            IN
            LET brs  == e.blocks[from + 1].branches
                kept == IF cond = <<>> THEN SelectSeq(brs, Branch_is_conditional) ELSE brs
            IN  [e EXCEPT !.blocks[from + 1].branches =
                              Append(kept, [cond |-> cond, block |-> to, args |-> args])]
    IN
    /\ holder \in {"ExtIR", "Delete"}
    /\ \E from \in 0..(Len(ir.blocks) - 1), to \in 0..(Len(ir.blocks) - 1),
          cond \in {<<>>} \cup {<<v>> : v \in {0} \cap (0..(Len(minted) - 1))} :
          /\ SumSeq([k \in 1..Len(ir.blocks) |-> Len(ir.blocks[k].branches)]) < ExtIRBounds.branches
          /\ ir' = ExtIR_push_branch(ir, cond, from, to, <<>>)
    /\ lastDelete' = Unset("lastDelete")
    /\ UNCHANGED <<holder, region, minted, deletes>>
    /\ UNCHANGED <<builder, finished, checked, lastBuild, global, local,
                   wlock, thread, registered, pm, lastPush, lastWalk, am,
                   lastAnalyze, applies, lastAsk, interp, lastJoin, machine,
                   lastStep>>

ExtIRPushInstr ==
    LET ExtIR_push_instr(e, blk, v) ==
            LET arg == Len(e.defs)
                len == Len(e.blocks[blk + 1].insts)
            IN  [self |-> [e EXCEPT !.blocks[blk + 1].insts = Append(@, v),
                                    !.defs = Append(@, <<blk, len>>)],
                 ret |-> arg]
    IN
    \* Instructions offered to push_instr.
    LET InstrInputs == {[op |-> "Fake", args |-> <<>>, attrs |-> <<>>]}
    IN
    /\ holder \in {"ExtIR", "Delete"}
    /\ Len(ir.defs) < ExtIRBounds.defs
    /\ \E blk \in 0..(Len(ir.blocks) - 1), v \in InstrInputs :
          LET c == ExtIR_push_instr(ir, blk, v)
          IN  /\ ir' = c.self
              /\ minted' = Append(minted, <<c.ret, deletes>>)
    /\ lastDelete' = Unset("lastDelete")
    /\ UNCHANGED <<holder, region, deletes>>
    /\ UNCHANGED <<builder, finished, checked, lastBuild, global, local,
                   wlock, thread, registered, pm, lastPush, lastWalk, am,
                   lastAnalyze, applies, lastAsk, interp, lastJoin, machine,
                   lastStep>>

ExtIRDeleteBlock ==
    \* `br.block - 1` on usize underflows when a rewritten branch targets block 0
    \* (only possible for i = 0): the overflow check aborts the call.
    LET DeleteUnderflows(e, i) ==
            \E k \in 1..Len(e.blocks) :
                /\ k # i + 1
                /\ \E bi \in 2..Len(e.blocks[k].branches) :
                      e.blocks[k].branches[bi].block >= i /\ e.blocks[k].branches[bi].block = 0
    IN
    /\ holder \in {"ExtIR", "Delete"}
    /\ deletes < ExtIRBounds.deletes
    /\ \E i \in 0..(Len(ir.blocks) - 1) :
          /\ ~DeleteUnderflows(ir, i)
          /\ ir' = ExtIR_delete_block(ir, i)
          \* The delete runs record the call.
          /\ lastDelete' = IF holder = "Delete"
                           THEN [called |-> TRUE, i |-> i, before |-> ir]
                           ELSE Unset("lastDelete")
    /\ deletes' = deletes + 1
    /\ UNCHANGED <<holder, region, minted>>
    /\ UNCHANGED <<builder, finished, checked, lastBuild, global, local,
                   wlock, thread, registered, pm, lastPush, lastWalk, am,
                   lastAnalyze, applies, lastAsk, interp, lastJoin, machine,
                   lastStep>>

NextRegion ==
    \/ RegionPushBlock
    \/ RegionPushArg
    \/ RegionPushOp

NextExtIR ==
    \/ ExtIRPushArg
    \/ ExtIRPushBlk
    \/ ExtIRPushBranch
    \/ ExtIRPushInstr
    \/ ExtIRDeleteBlock

NextIR == NextRegion \/ NextExtIR

\* A Region driven through the Region API.
SpecRegion == InitRegion /\ [][NextRegion]_vars

\* Either container (a Region or an ExtIR) driven through its API.
SpecIR == InitIR /\ [][NextIR]_vars

----------------------------------------------------------------------------
(* Claims about the Var index. *)

IsLive(d) == d # <<-1, -1>>

\* C2 as stated: no two distinct live Vars have the same (block, position)
\* entry in defs.
C2_LiveEntriesUnique ==
    \A v, w \in 1..Len(region.defs) :
        (v # w /\ IsLive(region.defs[v]) /\ IsLive(region.defs[w]))
            => region.defs[v] # region.defs[w]

\* C2 amended: no two distinct Vars that define operations (position >= 0)
\* have the same (block, position) entry in defs; the parameters of one
\* block all carry the entry (block, -1).
C2_OpEntriesUnique ==
    /\ \A v, w \in 1..Len(region.defs) :
          (v # w /\ region.defs[v][2] >= 0 /\ region.defs[w][2] >= 0)
              => region.defs[v] # region.defs[w]
    /\ \A k \in 1..Len(region.blocks) : \A a \in 1..Len(region.blocks[k].operands) :
          region.defs[region.blocks[k].operands[a] + 1] = <<k - 1, -1>>

C2_Witness ==
    /\ \E v, w \in 1..Len(region.defs) :
          v # w /\ region.defs[v][1] = region.defs[w][1]
                /\ region.defs[v][2] >= 0 /\ region.defs[w][2] >= 0
    /\ \E k \in 1..Len(region.blocks) : Len(region.blocks[k].operands) >= 1

\* C3: every push_arg / push_op / push_instr returns the Var whose id is
\* defs.len() before the push; the ids returned are 0, 1, 2, ... in order, so
\* each is greater than all earlier ones and none is returned twice, also
\* after delete_block.
C3_FreshVars ==
    LET CurDefs == IF holder = "Region" THEN region.defs ELSE ir.defs
    IN
    /\ Len(minted) = Len(CurDefs)
    /\ \A k \in 1..Len(minted) : minted[k][1] = k - 1

C3_Witness ==
    /\ holder = "ExtIR"
    /\ \E k \in 1..Len(minted) : k >= 2 /\ minted[k][2] >= 1
    /\ \E k \in 1..Len(ir.defs) : ~IsLive(ir.defs[k])

\* C34 -- for every block b of a region, get_block_vars(b) is exactly the
\* Vars of the operations of b (no block parameter, no Var of another
\* block) by increasing position, get_vars_in_block(b) is the same sequence,
\* and the block iterator yields each operation of b once, in the order of
\* insertion.
C34_BlockEnumeration ==
    holder = "Region" =>
        \A b \in 0..(Len(region.blocks) - 1) :
            LET items == Region_get_block_iter(region, b)
                ops == region.blocks[b + 1].ops
            IN  /\ Len(items) = Len(ops)
                /\ \A j \in 1..Len(items) :
                      /\ items[j].op = ops[j]
                      /\ items[j].var < Len(region.defs)
                      /\ region.defs[items[j].var + 1] = <<b, j - 1>>
                /\ region.kind = "Directed"
                      => /\ SSACFG_get_block_vars(region, b)
                               = [j \in 1..Len(items) |-> items[j].var]
                         /\ SSACFG_get_vars_in_block(region, b)
                               = SSACFG_get_block_vars(region, b)

\* A region of two blocks where operations of the first block were pushed
\* before and after one of the second, and the first block has a parameter.
C34_Witness ==
    /\ holder = "Region"
    /\ region.kind = "Directed"
    /\ Len(region.blocks) = 2
    /\ region.blocks[1].operands # <<>>
    /\ Len(SSACFG_get_block_vars(region, 0)) = 2
    /\ Len(SSACFG_get_block_vars(region, 1)) = 1
    /\ SSACFG_get_block_vars(region, 0)[1] < SSACFG_get_block_vars(region, 1)[1]
    /\ SSACFG_get_block_vars(region, 1)[1] < SSACFG_get_block_vars(region, 0)[2]

----------------------------------------------------------------------------
(* The delete runs: an ExtIR is built and blocks are deleted from it.      *)

InitDelete ==
    /\ holder = "Delete"
    /\ region = SSACFG_default
    /\ ir = ExtIR_default
    /\ minted = <<>>
    /\ deletes = 0
    /\ lastDelete = Unset("lastDelete")
    /\ Idle("Builder")
    /\ Idle("Registry")
    /\ Idle("PM")
    /\ Idle("AM")
    /\ Idle("Interp")
    /\ Idle("Machine")

SpecDelete == InitDelete /\ [][NextExtIR]_vars

\* C22 -- after delete_block(i), every Var defined in a block b > i has the
\* defs entry (b - 1, same position), every Var defined in a block b < i keeps
\* its entry, and get_instr returns for each surviving Var the instruction it
\* returned before the deletion.
C22_SurvivorsShift ==
    \* The index after delete_block(i) of the block that had index b # i.
    LET ShiftedBlock(b, i) == IF b > i THEN b - 1 ELSE b
    IN
    lastDelete.called =>
        \A v \in 0..(Len(lastDelete.before.defs) - 1) :
            LET d == lastDelete.before.defs[v + 1]
            IN  (d[1] >= 0 /\ d[1] # lastDelete.i) =>
                    /\ ir.defs[v + 1] = <<ShiftedBlock(d[1], lastDelete.i), d[2]>>
                    /\ ExtIR_get_instr(ir, v) = ExtIR_get_instr(lastDelete.before, v)

\* C23 -- after delete_block(i), every branch of a remaining block whose
\* target was j >= i has target j - 1, at any position of the block's branch
\* list, and every branch whose target was below i is unchanged.
C23_BranchesRetargeted ==
    LET Shifted(b, i) == IF b > i THEN b - 1 ELSE b
    IN
    lastDelete.called =>
        \A b \in 0..(Len(lastDelete.before.blocks) - 1) :
            b # lastDelete.i =>
                LET old == lastDelete.before.blocks[b + 1].branches
                    new == ir.blocks[Shifted(b, lastDelete.i) + 1].branches
                IN  /\ Len(new) = Len(old)
                    /\ \A bi \in 1..Len(old) :
                          new[bi] = IF old[bi].block >= lastDelete.i
                                    THEN [old[bi] EXCEPT !.block = @ - 1]
                                    ELSE old[bi]

\* C24 -- after delete_block(i), every Var that was defined in block i (a
\* parameter in the block's args, or an operation by its defs entry) has the
\* defs entry (-1, -1), get_instr returns None for it, and no block lists it.
C24_DeletedVarsDead ==
    lastDelete.called =>
        \A v \in 0..(Len(lastDelete.before.defs) - 1) :
            (\/ v \in Range(lastDelete.before.blocks[lastDelete.i + 1].args)
             \/ lastDelete.before.defs[v + 1][1] = lastDelete.i) =>
                /\ ir.defs[v + 1] = <<-1, -1>>
                /\ ExtIR_get_instr(ir, v) = [panic |-> FALSE, ret |-> <<>>]
                /\ \A b \in 0..(Len(ir.blocks) - 1) :
                      v \notin Range(ExtIR_get_vars_in_block(ir, b))


----------------------------------------------------------------------------
(* The builder runs: one OperationBuilder is constructed, driven through   *)
(* its API and finished.                                                   *)

\* The intrinsics a builder is constructed for.
BuilderIntrinsics == {"Func", "Addi", "Invoke"}

BuilderDefs(b) == SumSeq([k \in 1..Len(b.regions) |-> Len(b.regions[k].defs)])

InitBuilder ==
    \* The registry after dynamic_interfaces!(Addi: dyn Terminator) has run
    \* before the builder is constructed.
    LET RegisteredInputs ==
            [entries |-> dynamic_interfaces("Addi", {"Terminator"}), version |-> 1,
             arc |-> 0]
    IN
    /\ holder = "Builder"
    /\ Idle("IR")
    /\ global \in {Registry_default, RegisteredInputs}
    /\ local = [t \in Threads |-> LocalRegistry_uninit]
    /\ Idle("Threads")
    /\ Idle("PM")
    /\ Idle("AM")
    /\ Idle("Interp")
    /\ Idle("Machine")
    /\ builder \in {OperationBuilder_default(i) : i \in BuilderIntrinsics}
    /\ finished = <<>>
    /\ checked = Unset("checked")
    /\ lastBuild = Unset("lastBuild")

\* The builder is neither finished nor lost to a panic.
Running == finished = <<>> /\ ~lastBuild.panic

\* The runs that drive a builder, and the bound on the blocks of each.
BuilderHolders == {"Builder", "Cursor"}

BuilderSetOperands ==
    LET OperationBuilder_set_operands(b, args) == [b EXCEPT !.operands = args]
    IN
    \* The operand vectors handed to set_operands.
    LET OperandInputs == {<<0, 1>>}
    IN
    /\ holder = "Builder" /\ Running
    /\ \E args \in OperandInputs :
          builder' = OperationBuilder_set_operands(builder, args)
    /\ lastBuild' = Unset("lastBuild")
    /\ UNCHANGED <<holder, finished, checked>>
    /\ UNCHANGED <<region, ir, minted, deletes, lastDelete, global, local,
                   wlock, thread, registered, pm, lastPush, lastWalk, am,
                   lastAnalyze, applies, lastAsk, interp, lastJoin, machine,
                   lastStep>>

BuilderInsertAttr ==
    LET OperationBuilder_insert_attr(b, k, attr) == [b EXCEPT !.attributes[k] = attr]
    IN
    \* The (key, attribute) pairs handed to insert_attr: each attribute under
    \* its own key, and a LinkageAttr under the symbol key.
    LET AttrInputs ==
            {<<"builtin.symbol", "SymbolAttr">>, <<"builtin.symbol", "LinkageAttr">>,
             <<"builtin.linkage", "LinkageAttr">>}
    IN
    /\ holder = "Builder" /\ Running
    /\ \E a \in AttrInputs :
          builder' = OperationBuilder_insert_attr(builder, a[1], a[2])
    /\ lastBuild' = Unset("lastBuild")
    /\ UNCHANGED <<holder, finished, checked>>
    /\ UNCHANGED <<region, ir, minted, deletes, lastDelete, global, local,
                   wlock, thread, registered, pm, lastPush, lastWalk, am,
                   lastAnalyze, applies, lastAsk, interp, lastJoin, machine,
                   lastStep>>

BuilderPushRegion ==
    LET OperationBuilder_push_region(b, r) ==
            [b EXCEPT !.regions = Append(@, r),
                      !.cursor = <<b.cursor[1] + 1, b.cursor[2]>>]
    IN
    /\ holder \in BuilderHolders /\ Running
    /\ Len(builder.regions)
          < (IF holder = "Cursor" THEN MaxCursorRegions ELSE MaxRegions)
    /\ \E r \in {SSACFG_default, Graph_default} :
          builder' = OperationBuilder_push_region(builder, r)
    /\ lastBuild' = Unset("lastBuild")
    /\ UNCHANGED <<holder, finished, checked>>
    /\ UNCHANGED <<region, ir, minted, deletes, lastDelete, global, local,
                   wlock, thread, registered, pm, lastPush, lastWalk, am,
                   lastAnalyze, applies, lastAsk, interp, lastJoin, machine,
                   lastStep>>

\* push_block(blk); a Graph that has its block refuses any further one.
BuilderPushBlock ==
    LET BuilderBlocks(b) == SumSeq([k \in 1..Len(b.regions) |-> Len(b.regions[k].blocks)])
    IN
    LET BlockBound == IF holder = "Cursor" THEN MaxCursorBlocks ELSE MaxBuilderBlocks
    IN
    /\ holder \in BuilderHolders /\ Running
    /\ get_region_defined(builder)
    /\ \/ BuilderBlocks(builder) < BlockBound
       \/ /\ OperationBuilder_get_region(builder).kind = "Undirected"
          /\ Graph_has_block(OperationBuilder_get_region(builder))
    /\ \E blk \in {BasicBlock_default} :
          LET c == OperationBuilder_push_block(builder, blk)
          IN  /\ builder' = c.self
              /\ lastBuild' = [call |-> "push_block", before |-> builder,
                               ok |-> c.ok, panic |-> FALSE, ret |-> <<>>]
    /\ UNCHANGED <<holder, finished, checked>>
    /\ UNCHANGED <<region, ir, minted, deletes, lastDelete, global, local,
                   wlock, thread, registered, pm, lastPush, lastWalk, am,
                   lastAnalyze, applies, lastAsk, interp, lastJoin, machine,
                   lastStep>>

\* push_arg() in either build of the crate.
BuilderPushArg ==
    /\ holder \in BuilderHolders /\ Running
    /\ get_region_defined(builder)
    /\ BuilderDefs(builder) < MaxBuilderDefs
    /\ \E build \in Builds :
          LET c == OperationBuilder_push_arg(builder, build)
          IN  /\ builder' = c.self
              /\ lastBuild' = [call |-> "push_arg", before |-> builder,
                               ok |-> c.ok, panic |-> c.panic, ret |-> c.ret]
    /\ UNCHANGED <<holder, finished, checked>>
    /\ UNCHANGED <<region, ir, minted, deletes, lastDelete, global, local,
                   wlock, thread, registered, pm, lastPush, lastWalk, am,
                   lastAnalyze, applies, lastAsk, interp, lastJoin, machine,
                   lastStep>>

BuilderPushOp ==
    /\ holder \in BuilderHolders /\ Running
    /\ get_region_defined(builder)
    /\ cursor_block_defined(builder)
    /\ BuilderDefs(builder) < MaxBuilderDefs
    /\ \E v \in OpInputs :
          builder' = OperationBuilder_push_op(builder, v).self
    /\ lastBuild' = Unset("lastBuild")
    /\ UNCHANGED <<holder, finished, checked>>
    /\ UNCHANGED <<region, ir, minted, deletes, lastDelete, global, local,
                   wlock, thread, registered, pm, lastPush, lastWalk, am,
                   lastAnalyze, applies, lastAsk, interp, lastJoin, machine,
                   lastStep>>

BuilderPush ==
    \* push(v) finishes the inner builder and pushes the operation it yields.
    LET OperationBuilder_push(b, v) ==
            LET f == OperationBuilder_finish(v)
            IN  IF f.ok
                THEN LET c == OperationBuilder_push_op(b, f.op)
                     IN  [self |-> c.self, ok |-> TRUE, ret |-> c.ret]
                ELSE [self |-> b, ok |-> FALSE, ret |-> -1]
    IN
    \* The inner builders handed to push: a leaf builder per child intrinsic.
    LET InnerBuilders == {OperationBuilder_default(i) : i \in {"Addi", "Return"}}
    IN
    /\ holder = "Builder" /\ Running
    /\ get_region_defined(builder)
    /\ cursor_block_defined(builder)
    /\ BuilderDefs(builder) < MaxBuilderDefs
    /\ \E v \in InnerBuilders :
          builder' = OperationBuilder_push(builder, v).self
    /\ lastBuild' = Unset("lastBuild")
    /\ UNCHANGED <<holder, finished, checked>>
    /\ UNCHANGED <<region, ir, minted, deletes, lastDelete, global, local,
                   wlock, thread, registered, pm, lastPush, lastWalk, am,
                   lastAnalyze, applies, lastAsk, interp, lastJoin, machine,
                   lastStep>>

BuilderFinish ==
    /\ holder = "Builder" /\ Running
    /\ finished' = <<OperationBuilder_finish(builder)>>
    /\ lastBuild' = Unset("lastBuild")
    /\ UNCHANGED <<holder, builder, checked>>
    /\ UNCHANGED <<region, ir, minted, deletes, lastDelete, global, local,
                   wlock, thread, registered, pm, lastPush, lastWalk, am,
                   lastAnalyze, applies, lastAsk, interp, lastJoin, machine,
                   lastStep>>

\* The Operation finish returned.
FinishedOp == finished[1].op

\* op.get_intrinsic().verify(op.get_intrinsic(), &op) on the finished Operation.
OperationVerify ==
    /\ holder = "Builder" /\ finished # <<>>
    /\ checked' = [call |-> "verify", on |-> "Intrinsic",
                   result |-> Intrinsic_verify(FinishedOp.intrinsic, FinishedOp)]
    /\ UNCHANGED <<holder, builder, finished, lastBuild>>
    /\ UNCHANGED <<region, ir, minted, deletes, lastDelete, global, local,
                   wlock, thread, registered, pm, lastPush, lastWalk, am,
                   lastAnalyze, applies, lastAsk, interp, lastJoin, machine,
                   lastStep>>

\* RequiresTerminators::verify called on the finished Operation.
RequiresTerminatorsVerify ==
    /\ holder = "Builder" /\ finished # <<>>
    /\ checked' = [call |-> "verify", on |-> "RequiresTerminators",
                   result |-> RequiresTerminators_verify(FinishedOp)]
    /\ UNCHANGED <<holder, builder, finished, lastBuild>>
    /\ UNCHANGED <<region, ir, minted, deletes, lastDelete, global, local,
                   wlock, thread, registered, pm, lastPush, lastWalk, am,
                   lastAnalyze, applies, lastAsk, interp, lastJoin, machine,
                   lastStep>>

\* The verify of an attribute! trait called on the finished Operation.
AttributeVerify ==
    /\ holder = "Builder" /\ finished # <<>>
    /\ \E trt \in AttributeTraits :
          checked' = [call |-> "verify", on |-> trt,
                      result |-> attribute_verify(trt, FinishedOp)]
    /\ UNCHANGED <<holder, builder, finished, lastBuild>>
    /\ UNCHANGED <<region, ir, minted, deletes, lastDelete, global, local,
                   wlock, thread, registered, pm, lastPush, lastWalk, am,
                   lastAnalyze, applies, lastAsk, interp, lastJoin, machine,
                   lastStep>>

\* get_value / get_value_mut of an attribute! trait, called as the passes
\* call it: after that trait's verify returned Ok.
AttributeGetValue ==
    LET attribute_get_value(trt, op) ==
            LET d == attribute_decl(trt)
            IN  IF op.attributes[d.key] = Absent THEN Panic
                ELSE IF ~query_ref(op.attributes[d.key], AttributeValue(d.struct))
                     THEN Panic
                     ELSE op.attributes[d.key]
    IN
    /\ holder = "Builder" /\ finished # <<>>
    /\ checked.call = "verify" /\ checked.result = Ok
    /\ checked.on \in AttributeTraits
    /\ checked' = [call |-> "get_value", on |-> checked.on,
                   result |-> attribute_get_value(checked.on, FinishedOp)]
    /\ UNCHANGED <<holder, builder, finished, lastBuild>>
    /\ UNCHANGED <<region, ir, minted, deletes, lastDelete, global, local,
                   wlock, thread, registered, pm, lastPush, lastWalk, am,
                   lastAnalyze, applies, lastAsk, interp, lastJoin, machine,
                   lastStep>>

NextBuilder ==
    \/ BuilderSetOperands
    \/ BuilderInsertAttr
    \/ BuilderPushRegion
    \/ BuilderPushBlock
    \/ BuilderPushArg
    \/ BuilderPushOp
    \/ BuilderPush
    \/ BuilderFinish
    \/ OperationVerify
    \/ RequiresTerminatorsVerify
    \/ AttributeVerify
    \/ AttributeGetValue

SpecBuilder == InitBuilder /\ [][NextBuilder]_vars


----------------------------------------------------------------------------
(* Claims about verification. *)

\* C4 -- OperationBuilder::finish runs verification: when the operation the
\* builder holds violates the verify of a capability its intrinsic declares,
\* finish returns an error.
C4_FinishVerifies ==
    finished # <<>> =>
        (Intrinsic_verify(FinishedOp.intrinsic, FinishedOp) # Ok => ~finished[1].ok)

\* The declared capabilities of the finished Operation's intrinsic, defaults
\* first, and the positions of those whose own verify fails on it.
Declared == intrinsic_decl(FinishedOp.intrinsic).defaults
                \o intrinsic_decl(FinishedOp.intrinsic).externs

Failing == {k \in 1..Len(Declared) : trait_verify(Declared[k], FinishedOp) # Ok}

\* C5 -- the verify synthesized by intrinsic! returns Ok exactly when every
\* declared default and extern capability's verify returns Ok on the
\* operation, and otherwise returns the error of the first failing capability
\* in declaration order, defaults before externs.
C5_VerifyConjunction ==
    (checked.call = "verify" /\ checked.on = "Intrinsic") =>
        /\ (checked.result = Ok <=> Failing = {})
        /\ Failing # {} =>
              LET first == CHOOSE k \in Failing : \A j \in Failing : k <= j
              IN  checked.result = trait_verify(Declared[first], FinishedOp)

\* A verify ran on an intrinsic with a failing default and a failing extern
\* capability and reported the default's error.
C5_Witness ==
    /\ checked.call = "verify" /\ checked.on = "Intrinsic"
    /\ FinishedOp.intrinsic = "Invoke"
    /\ Failing = {1, 2}
    /\ checked.result = "ProvidesSymbolAttr: key missing"

\* Intrinsic i provides no Terminator capability, statically or dynamically.
LacksTerminator(i) ==
    /\ "Terminator" \notin interfaces_list(i)
    /\ <<i, "Terminator">> \notin global.entries

\* Some region of op has a non-empty block whose last operation is of an
\* intrinsic without the Terminator capability.
HasUnterminatedBlock(op) ==
    \E ri \in 1..Len(op.regions) :
        \E bi \in 1..Len(op.regions[ri].blocks) :
            LET ops == op.regions[ri].blocks[bi].ops
            IN  ops # <<>> /\ LacksTerminator(ops[Len(ops)].intrinsic)

\* C6 -- RequiresTerminators.verify fails for an operation with a region
\* that contains a non-empty block whose last operation, in position order,
\* is of an intrinsic that does not provide the Terminator capability.
C6_UnterminatedBlockFails ==
    (checked.call = "verify" /\ checked.on = "RequiresTerminators"
        /\ HasUnterminatedBlock(FinishedOp))
    => checked.result # Ok

\* RequiresTerminators.verify ran on an operation whose blocks are all
\* non-empty and one of which starts with a terminator and ends without one.
C6_Witness ==
    /\ checked.call = "verify" /\ checked.on = "RequiresTerminators"
    /\ HasUnterminatedBlock(FinishedOp)
    /\ \A ri \in 1..Len(FinishedOp.regions) :
          \A bi \in 1..Len(FinishedOp.regions[ri].blocks) :
              FinishedOp.regions[ri].blocks[bi].ops # <<>>
    /\ \E ri \in 1..Len(FinishedOp.regions) :
          \E bi \in 1..Len(FinishedOp.regions[ri].blocks) :
              LET ops == FinishedOp.regions[ri].blocks[bi].ops
              IN  Len(ops) = 2 /\ ~LacksTerminator(ops[1].intrinsic)
                               /\ LacksTerminator(ops[2].intrinsic)

\* C25 -- the terminator requirement constrains only non-empty blocks: an
\* operation all of whose non-empty blocks end with a Terminator-capable
\* operation passes RequiresTerminators.verify, with or without empty blocks.
C25_EmptyBlocksPass ==
    (checked.call = "verify" /\ checked.on = "RequiresTerminators"
        /\ ~HasUnterminatedBlock(FinishedOp))
    => checked.result = Ok

\* C7 -- for a trait generated by attribute!(T: key, trait: ProvidesX),
\* verify returns Ok exactly when the operation's attribute map has the key
\* and the attribute stored there provides AttributeValue<T>; and once verify
\* has returned Ok, get_value / get_value_mut do not fail.
C7_AttributeVerify ==
    \* The attribute stored under the key of trait trt provides the trait's
    \* value: it is of the declared struct, or the pair is in the registry.
    LET ProvidesValue(trt, op) ==
            LET d == attribute_decl(trt)
                stored == op.attributes[d.key]
            IN  /\ stored # Absent
                /\ \/ stored = d.struct
                   \/ <<stored, AttributeValue(d.struct)>> \in global.entries
    IN
    /\ (checked.call = "verify" /\ checked.on \in AttributeTraits) =>
          (checked.result = Ok <=> ProvidesValue(checked.on, FinishedOp))
    /\ checked.call = "get_value" => checked.result # Panic

\* verify of ProvidesSymbolAttr returned Ok and get_value then returned the
\* SymbolAttr stored under the key.
C7_Witness ==
    /\ checked.call = "get_value" /\ checked.on = "ProvidesSymbolAttr"
    /\ checked.result = "SymbolAttr"

\* The cursor runs: a builder driven through push_region, push_block,
\* push_arg and push only.
InitCursor ==
    /\ holder = "Cursor"
    /\ Idle("IR")
    /\ Idle("Registry")
    /\ Idle("PM")
    /\ Idle("AM")
    /\ Idle("Interp")
    /\ Idle("Machine")
    /\ builder \in {OperationBuilder_default(i) : i \in BuilderIntrinsics}
    /\ finished = <<>>
    /\ checked = Unset("checked")
    /\ lastBuild = Unset("lastBuild")

NextCursor ==
    BuilderPushRegion \/ BuilderPushBlock \/ BuilderPushArg \/ BuilderPushOp

SpecCursor == InitCursor /\ [][NextCursor]_vars

\* The region under the cursor of the builder before the last call.
RegionBefore == lastBuild.before.regions[lastBuild.before.cursor[1]]

\* The same region of the builder now.
RegionAfter == builder.regions[lastBuild.before.cursor[1]]

\* C18 -- push_arg appends a new parameter Var to the current block and
\* returns it; the Var is also appended to the builder's operands iff the
\* current block is block 0, and the operands are unchanged otherwise.
C18_PushArg ==
    (lastBuild.call = "push_arg" /\ lastBuild.ok) =>
        LET blk == lastBuild.before.cursor[2] - 1
            v == Len(RegionBefore.defs)
        IN  /\ lastBuild.ret = <<v>>
            /\ RegionAfter.blocks[blk + 1].operands
                  = Append(RegionBefore.blocks[blk + 1].operands, v)
            /\ Len(RegionAfter.defs) = v + 1
            /\ builder.operands = IF blk = 0
                                  THEN Append(lastBuild.before.operands, v)
                                  ELSE lastBuild.before.operands

\* A push_arg on block 1 that left the operands alone.
C18_Witness ==
    /\ lastBuild.call = "push_arg" /\ lastBuild.ok
    /\ lastBuild.before.cursor[2] - 1 = 1
    /\ lastBuild.ret # <<>>
    /\ builder.operands = lastBuild.before.operands

\* C19 -- push_arg on a Graph region returns an error and leaves the
\* region's defs and blocks and the builder's operands and cursor unchanged.
C19_GraphPushArgFails ==
    (lastBuild.call = "push_arg" /\ RegionBefore.kind = "Undirected") =>
        /\ ~lastBuild.ok
        /\ ~lastBuild.panic
        /\ RegionAfter = RegionBefore
        /\ builder.operands = lastBuild.before.operands
        /\ builder.cursor = lastBuild.before.cursor

\* C20 -- a Graph region never holds more than one block: push_block on a
\* Graph that has a block returns an error, leaves the block and its
\* operations as they are and does not advance the cursor.
C20_GraphOneBlock ==
    /\ \A k \in 1..Len(builder.regions) :
          builder.regions[k].kind = "Undirected"
              => Len(builder.regions[k].blocks) <= 1
    /\ (/\ lastBuild.call = "push_block"
        /\ RegionBefore.kind = "Undirected"
        /\ Graph_has_block(RegionBefore))
           => /\ ~lastBuild.ok
              /\ RegionAfter = RegionBefore
              /\ builder.cursor = lastBuild.before.cursor

\* A push_block refused by a Graph whose block holds an operation.
C20_Witness ==
    /\ lastBuild.call = "push_block"
    /\ RegionBefore.kind = "Undirected"
    /\ Graph_has_block(RegionBefore)
    /\ RegionBefore.blocks[1].ops # <<>>
    /\ ~lastBuild.ok

\* C36 -- after any sequence of push_region and successful push_block calls,
\* with one region or more, the cursor (r, b) has r = the number of regions
\* and b = the number of blocks of region r - 1, so push_op and push_arg
\* index the block appended last to the region appended last.
C36_CursorAtLastBlock ==
    holder = "Cursor" =>
        /\ builder.cursor[1] = Len(builder.regions)
        /\ builder.cursor[1] >= 1
              => builder.cursor[2]
                    = Len(builder.regions[builder.cursor[1]].blocks)


----------------------------------------------------------------------------
(* The registry runs: threads register interfaces with dynamic_interfaces! *)
(* and query capabilities, interleaved.                                    *)

InitRegistry ==
    /\ holder = "Registry"
    /\ Idle("IR")
    /\ Idle("Builder")
    /\ Idle("Registry")
    /\ Idle("PM")
    /\ Idle("AM")
    /\ Idle("Interp")
    /\ Idle("Machine")

\* with_registry_mut up to the closure: the write lock is taken and the
\* closure registers the pairs in the registry Arc::make_mut hands it (the
\* thread-locals keep the allocation they hold).
RegisterBegin(t) ==
    \* The registrations offered: dynamic_interfaces!(type: dyn iface).
    LET DynamicInputs == {<<"Addi", "Terminator">>, <<"Return", "LatticeSemantics">>}
    IN
    /\ holder = "Registry"
    /\ thread[t].at \in {"idle", "done"}
    /\ wlock = "none"
    /\ global.version < MaxRegistrations
    /\ \E d \in DynamicInputs :
          /\ global' = [global EXCEPT
                          !.entries = @ \cup dynamic_interfaces(d[1], {d[2]}),
                          !.arc = Arc_make_mut(global, local)]
          /\ thread' = [thread EXCEPT ![t] =
                          [ThreadIdle EXCEPT !.at = "registering",
                                             !.type = d[1], !.id = d[2]]]
    /\ wlock' = t
    /\ UNCHANGED <<holder, local, registered>>
    /\ UNCHANGED <<region, ir, minted, deletes, lastDelete, builder,
                   finished, checked, lastBuild, pm, lastPush, lastWalk, am,
                   lastAnalyze, applies, lastAsk, interp, lastJoin, machine,
                   lastStep>>

\* GLOBAL_REGISTRY_VERSION.fetch_add(1), still under the write lock.
RegisterBump(t) ==
    /\ holder = "Registry"
    /\ thread[t].at = "registering"
    /\ global' = [global EXCEPT !.version = @ + 1]
    /\ thread' = [thread EXCEPT ![t].at = "bumped"]
    /\ UNCHANGED <<holder, local, wlock, registered>>
    /\ UNCHANGED <<region, ir, minted, deletes, lastDelete, builder,
                   finished, checked, lastBuild, pm, lastPush, lastWalk, am,
                   lastAnalyze, applies, lastAsk, interp, lastJoin, machine,
                   lastStep>>

\* with_registry_mut returns: the guard is dropped, the macro call is over.
RegisterEnd(t) ==
    /\ holder = "Registry"
    /\ thread[t].at = "bumped"
    /\ wlock' = "none"
    /\ registered' = registered
                        \cup dynamic_interfaces(thread[t].type, {thread[t].id})
    /\ thread' = [thread EXCEPT ![t] = ThreadIdle]
    /\ UNCHANGED <<holder, global, local>>
    /\ UNCHANGED <<region, ir, minted, deletes, lastDelete, builder,
                   finished, checked, lastBuild, pm, lastPush, lastWalk, am,
                   lastAnalyze, applies, lastAsk, interp, lastJoin, machine,
                   lastStep>>

\* query_vtable up to its last arm.  `known` records whether the capability
\* is listed or its registration had returned when the query began; `stale`
\* whether the thread's registry was obtained without the pair.
QueryStart(t) ==
    LET QueryIds == {"Terminator", "LatticeSemantics"}
    IN
    \* The queries offered: query_ref::<dyn id>() on a value of the type.
    LET QueryTypes == {"Addi", "Return"}
    IN
    /\ holder = "Registry"
    /\ thread[t].at \in {"idle", "done"}
    /\ \E T \in QueryTypes, id \in QueryIds :
          thread' = [thread EXCEPT ![t] =
              [at     |-> IF query_vtable_static(T, id) THEN "done" ELSE "registry",
               type   |-> T,
               id     |-> id,
               result |-> query_vtable_static(T, id),
               known  |-> query_vtable_static(T, id) \/ <<T, id>> \in registered,
               stale  |-> local[t].obtained /\ <<T, id>> \notin local[t].entries]]
    /\ UNCHANGED <<holder, global, local, wlock, registered>>
    /\ UNCHANGED <<region, ir, minted, deletes, lastDelete, builder,
                   finished, checked, lastBuild, pm, lastPush, lastWalk, am,
                   lastAnalyze, applies, lastAsk, interp, lastJoin, machine,
                   lastStep>>

\* find_in_registry: with_registry brings the thread's registry up to date
\* (obtain takes the read lock, so it waits for a writer) and looks the pair up.
QueryRegistry(t) ==
    /\ holder = "Registry"
    /\ thread[t].at = "registry"
    /\ LET l == with_registry_local(local[t], global)
       IN  /\ l # local[t] => wlock = "none"
           /\ local' = [local EXCEPT ![t] = l]
           /\ thread' = [thread EXCEPT
                           ![t].at = "done",
                           ![t].result = Registry_find(l.entries, thread[t].type,
                                                       thread[t].id)]
    /\ UNCHANGED <<holder, global, wlock, registered>>
    /\ UNCHANGED <<region, ir, minted, deletes, lastDelete, builder,
                   finished, checked, lastBuild, pm, lastPush, lastWalk, am,
                   lastAnalyze, applies, lastAsk, interp, lastJoin, machine,
                   lastStep>>

NextRegistry ==
    \E t \in Threads :
        \/ RegisterBegin(t)
        \/ RegisterBump(t)
        \/ RegisterEnd(t)
        \/ QueryStart(t)
        \/ QueryRegistry(t)

SpecRegistry == InitRegistry /\ [][NextRegistry]_vars

----------------------------------------------------------------------------
(* Claims about the capability query. *)

\* C8 -- a capability query on a value of type I for capability C returns a
\* handle only if C is in I's interfaces! list or the pair (I, C) has been
\* registered dynamically, and always does when C is listed or the
\* registration had returned before the query began -- also on a thread whose
\* view of the registry predates the registration.
C8_QueryAnswers ==
    \A t \in Threads :
        thread[t].at = "done" =>
            /\ thread[t].result =>
                  \/ query_vtable_static(thread[t].type, thread[t].id)
                  \/ <<thread[t].type, thread[t].id>> \in registered
            /\ thread[t].known => thread[t].result

\* A query has answered with a handle for a capability that is not listed,
\* on a thread that had obtained its registry before the pair was registered.
C8_Witness ==
    \E t \in Threads :
        /\ thread[t].at = "done"
        /\ thread[t].result
        /\ thread[t].stale
        /\ ~query_vtable_static(thread[t].type, thread[t].id)

\* C35 -- dynamic registration under concurrency: a query started on any
\* thread after with_registry_mut returned finds the new binding, also on a
\* thread holding an older snapshot; the allocation a thread's snapshot
\* points to is never the one a registration mutates, so it holds what the
\* thread obtained; and a binding that the global registry or a thread's
\* snapshot held is held by it ever after.
C35_RegistrationSafe ==
    /\ [](\A t \in Threads :
            /\ (thread[t].at = "done" /\ thread[t].known) => thread[t].result
            /\ (local[t].obtained /\ local[t].arc = global.arc)
                  => local[t].entries = global.entries
            /\ \A u \in Threads :
                  (local[t].obtained /\ local[u].obtained
                      /\ local[t].arc = local[u].arc)
                      => local[t].entries = local[u].entries)
    /\ [][/\ global.entries \subseteq global'.entries
          /\ \A t \in Threads :
                local[t].obtained
                    => /\ local'[t].obtained
                       /\ local[t].entries \subseteq local'[t].entries]_vars

\* A registration has returned while the other thread held a snapshot of
\* the registry taken before it, and that thread's next query found the
\* new binding in a snapshot it replaced.
C35_Witness ==
    \E t \in Threads :
        /\ thread[t].at = "done"
        /\ thread[t].known
        /\ thread[t].stale
        /\ thread[t].result
        /\ ~query_vtable_static(thread[t].type, thread[t].id)
        /\ local[t].arc = global.arc
        /\ global.arc > 0


----------------------------------------------------------------------------
(* The pass manager runs: a manager is constructed, passes are pushed and  *)
(* managers nested.                                                        *)

InitPM ==
    \* The manager's intrinsic tags.
    LET ManagerTags == {"Module", "Func"}
    IN
    /\ holder = "PassManager"
    /\ Idle("IR")
    /\ Idle("Builder")
    /\ Idle("Registry")
    /\ Idle("AM")
    /\ Idle("Interp")
    /\ Idle("Machine")
    /\ pm \in {OperationPassManager_new(T) : T \in ManagerTags}
    /\ lastPush = Unset("lastPush")
    /\ lastWalk = Unset("lastWalk")

PMPush ==
    \* The passes offered to push: PopulateSymbolTablePass keeps the default
    \* target_intrinsic (None); the other two override it.
    LET PassInputs ==
            {[name |-> "PopulateSymbolTablePass", target |-> <<>>],
             [name |-> "FuncPass", target |-> <<"Func">>],
             [name |-> "ModulePass", target |-> <<"Module">>]}
    IN
    /\ holder = "PassManager"
    /\ ~lastWalk.called
    /\ Len(pm.passes) < MaxPasses
    /\ \E pass \in PassInputs :
          LET c == OperationPassManager_push(pm, pass)
          IN  /\ pm' = c.self
              /\ lastPush' = [called |-> TRUE, pass |-> pass,
                              before |-> pm.passes, ok |-> c.ok]
    /\ UNCHANGED <<holder, lastWalk>>
    /\ UNCHANGED <<region, ir, minted, deletes, lastDelete, builder,
                   finished, checked, lastBuild, global, local, wlock,
                   thread, registered, am, lastAnalyze, applies, lastAsk,
                   interp, lastJoin, machine, lastStep>>

PMNest ==
    LET OperationPassManager_nest(m, mgr) ==
            [self |-> [m EXCEPT !.managers = Append(@, mgr)], ok |-> TRUE]
    IN
    \* The managers offered to nest.
    LET NestInputs ==
            {OperationPassManager_new("Func"),
             OperationPassManager_push(OperationPassManager_new("Func"),
                 [name |-> "PopulateSymbolTablePass", target |-> <<>>]).self}
    IN
    /\ holder = "PassManager"
    /\ ~lastWalk.called
    /\ Len(pm.managers) < MaxManagers
    /\ \E mgr \in NestInputs :
          pm' = OperationPassManager_nest(pm, mgr).self
    /\ UNCHANGED <<holder, lastPush, lastWalk>>
    /\ UNCHANGED <<region, ir, minted, deletes, lastDelete, builder,
                   finished, checked, lastBuild, global, local, wlock,
                   thread, registered, am, lastAnalyze, applies, lastAsk,
                   interp, lastJoin, machine, lastStep>>

\* prewalk(op) consumes the manager: nothing is pushed or nested afterwards.
PMPrewalk ==
    \* A Module operation: Module.get_builder stores both `symbols` and `symbol`;
    \* a builder driven by hand stores the attributes it is given.
    LET ModuleOp(attributes, children) ==
            [intrinsic |-> "Module", operands |-> <<>>, attributes |-> attributes,
             regions |-> <<ModuleRegion(children)>>, successors |-> <<>>]
    IN
    \* The tests' Add.get_builder(operands) finished.
    LET AddOp(operands) ==
            [intrinsic |-> "Add", operands |-> operands,
             attributes |-> [symbols |-> NoAttr, symbol |-> NoAttr],
             regions |-> <<>>, successors |-> <<>>]
    IN
    \* Func.get_builder(name) finished: a Directed region with one block and
    \* the symbol attribute.
    LET FuncOp(name) ==
            [intrinsic |-> "Func", operands |-> <<>>,
             attributes |-> [symbols |-> NoAttr, symbol |-> SymbolAttr_new(name)],
             regions |-> <<Region_push_block(SSACFG_default, BasicBlock_default).self>>,
             successors |-> <<>>]
    IN
    \* SymbolTableAttr over a HashMap given as a set of <<name, Var>> pairs.
    LET SymbolTableAttr_new == [struct |-> "SymbolTableAttr", value |-> {}]
    IN
    \* What the apply of a pass other than PopulateSymbolTablePass may return.
    LET ApplyOutcomes == {Ok, "apply failed"}
    IN
    \* The operations handed to prewalk: the module of tests/passes.rs, a module
    \* built by hand without a `symbol` of its own, and a function.
    LET WalkOps ==
            {ModuleOp([symbols |-> SymbolTableAttr_new, symbol |-> SymbolAttr_new("foo")],
                      <<FuncOp("g"), AddOp(<<>>), FuncOp("h")>>),
             ModuleOp([symbols |-> SymbolTableAttr_new, symbol |-> NoAttr],
                      <<FuncOp("g")>>),
             FuncOp("g")}
    IN
    /\ holder = "PassManager"
    /\ ~lastWalk.called
    /\ \E op \in WalkOps, outcomes \in [1..Len(pm.passes) -> ApplyOutcomes] :
          LET c == OperationPassManager_prewalk(pm, op, outcomes)
          IN  lastWalk' = [called |-> TRUE, op |-> op, ret |-> c.ret,
                           out |-> c.out, trace |-> c.trace,
                           visited |-> c.visited,
                           check |-> PassManager_check(pm, op),
                           analysis_manager |-> c.analysis_manager]
    /\ UNCHANGED <<holder, pm, lastPush>>
    /\ UNCHANGED <<region, ir, minted, deletes, lastDelete, builder,
                   finished, checked, lastBuild, global, local, wlock,
                   thread, registered, am, lastAnalyze, applies, lastAsk,
                   interp, lastJoin, machine, lastStep>>

NextPM == PMPush \/ PMNest \/ PMPrewalk

SpecPM == InitPM /\ [][NextPM]_vars

\* The pass of the last push names a target other than the manager's tag.
TargetMismatch ==
    /\ lastPush.pass.target # <<>>
    /\ lastPush.pass.target[1] # pm.intrinsic_tag

\* C9 -- OperationPassManager<T>::push(p) returns an error and leaves the
\* pass list unchanged when p.target_intrinsic() is Some(T') with T' other
\* than T; otherwise it appends p at the end of the list and returns Ok.
C9_PushTargets ==
    lastPush.called =>
        IF TargetMismatch
        THEN ~lastPush.ok /\ pm.passes = lastPush.before
        ELSE lastPush.ok /\ pm.passes = Append(lastPush.before, lastPush.pass)

\* A push of a pass for another intrinsic was refused by a manager that
\* already held a pass.
C9_Witness ==
    /\ lastPush.called
    /\ TargetMismatch
    /\ ~lastPush.ok
    /\ lastPush.before # <<>>

\* C12 -- prewalk applies the manager's passes to the operation in insertion
\* order, one at a time, each on what the one before left; after an apply
\* that is not Ok no later pass is applied, its error is what prewalk
\* returns, and the operation keeps the mutations of the earlier passes.
C12_PrewalkInOrder ==
    (lastWalk.called /\ PassManager_check(pm, lastWalk.op)) =>
        LET t == lastWalk.trace
            n == Len(t)
        IN  /\ n <= Len(pm.passes)
            /\ \A i \in 1..n :
                  /\ t[i].pass = i
                  /\ t[i].name = pm.passes[i].name
                  /\ t[i].before = (IF i = 1 THEN lastWalk.op ELSE t[i - 1].after)
            /\ \A i \in 1..(n - 1) : t[i].ret = Ok
            /\ IF n > 0 /\ t[n].ret # Ok
               THEN lastWalk.ret = t[n].ret
               ELSE n = Len(pm.passes) /\ lastWalk.ret = Ok
            /\ lastWalk.out = (IF n = 0 THEN lastWalk.op ELSE t[n].after)

\* A walk whose second pass failed after the first one had filled the symbol
\* table, with a third pass still in the list.
C12_Witness ==
    /\ lastWalk.called
    /\ lastWalk.ret = "apply failed"
    /\ Len(lastWalk.trace) = 2
    /\ Len(pm.passes) = 3
    /\ lastWalk.out # lastWalk.op

\* C13 -- after its own passes, a successful prewalk has run each nested
\* manager on every child operation, in every region, whose intrinsic is
\* that manager's target.
C13_NestedManagersDescend ==
    \* The operations of region r of op, each with its Var, block by block.
    LET RegionItems(r) ==
            UNION {Range(Region_get_block_iter(r, b)) : b \in 0..(Len(r.blocks) - 1)}
    IN
    (lastWalk.called /\ lastWalk.ret = Ok) =>
        \A i \in 1..Len(pm.managers), r \in 1..Len(lastWalk.out.regions) :
            \A item \in RegionItems(lastWalk.out.regions[r]) :
                item.op.intrinsic = pm.managers[i].intrinsic_tag
                    => \E k \in 1..Len(lastWalk.visited) :
                          lastWalk.visited[k] =
                              [manager |-> pm.managers[i].intrinsic_tag,
                               path |-> <<r, item.var>>]

\* C14 -- after PopulateSymbolTablePass::apply returned Ok, the symbol table
\* of the operation maps the symbol of every operation of block 0 of region
\* 0 whose intrinsic provides a symbol to that operation's Var, and the
\* regions, operands, successors and `symbol` attribute are as before.
C14_SymbolTablePopulated ==
    \A i \in 1..Len(lastWalk.trace) :
        LET t == lastWalk.trace[i]
        IN  (t.name = "PopulateSymbolTablePass" /\ t.ret = Ok) =>
                /\ \A item \in Range(Region_get_block_iter(t.before.regions[1], 0)) :
                      "ProvidesSymbol" \in get_traits(item.op.intrinsic)
                          => \E n \in item.op.attributes.symbol.value :
                                <<n, item.var>> \in t.after.attributes.symbols.value
                /\ t.after.regions = t.before.regions
                /\ t.after.operands = t.before.operands
                /\ t.after.successors = t.before.successors
                /\ t.after.attributes.symbol = t.before.attributes.symbol

\* C32 -- check(op) is true exactly when the intrinsic of the operation is
\* the manager's target T; prewalk on an operation of another intrinsic
\* returns an error, applies no pass and leaves the analysis manager in the
\* pass manager.
C32_PrewalkChecksTarget ==
    lastWalk.called =>
        /\ lastWalk.check = (lastWalk.op.intrinsic = pm.intrinsic_tag)
        /\ lastWalk.op.intrinsic # pm.intrinsic_tag
              => /\ lastWalk.ret
                       = "Operation intrinsic type is not the same as pass manager."
                 /\ lastWalk.trace = <<>>
                 /\ lastWalk.out = lastWalk.op
                 /\ lastWalk.analysis_manager = pm.analysis_manager
                 /\ lastWalk.analysis_manager # <<>>

\* A manager for Module holding passes was walked over a function.
C32_Witness ==
    /\ lastWalk.called
    /\ pm.intrinsic_tag = "Module"
    /\ lastWalk.op.intrinsic = "Func"
    /\ Len(pm.passes) = 2
    /\ ~lastWalk.check
    /\ lastWalk.trace = <<>>

\* C33 -- during a walk a pass whose check fails on the operation is not
\* applied to it: the walk returns an error and the operation is as it was
\* before that pass.
C33_FailedCheckNotApplied ==
    lastWalk.called =>
        \A i \in 1..Len(lastWalk.trace) :
            LET t == lastWalk.trace[i]
            IN  t.name = "PopulateSymbolTablePass"
                    => PopulateSymbolTablePass_check(t.before) = Ok

\* C39 -- PopulateSymbolTablePass::apply never calls write() on the
\* operation's lock while it holds a read guard on it: the guard of the
\* block that collects the symbols is dropped before write() is called, so
\* the apply does not block on its own lock, and it returns with no guard
\* alive.
C39_ReadReleasedBeforeWrite ==
    \A i \in 1..Len(lastWalk.trace) :
        LET t == lastWalk.trace[i]
        IN  t.name = "PopulateSymbolTablePass"
                => /\ t.ret # "deadlock"
                   /\ t.write_at # <<>>
                         => /\ t.write_at[1].readers = 0
                            /\ ~t.write_at[1].writer
                   /\ t.lock = [readers |-> 0, writer |-> FALSE]
                   /\ t.ret = Ok => t.write_at # <<>>

\* The pass has collected symbols under the read guard and inserted them
\* under the write guard.
C39_Witness ==
    \E i \in 1..Len(lastWalk.trace) :
        /\ lastWalk.trace[i].name = "PopulateSymbolTablePass"
        /\ lastWalk.trace[i].ret = Ok
        /\ lastWalk.trace[i].write_at # <<>>
        /\ lastWalk.trace[i].after # lastWalk.trace[i].before

----------------------------------------------------------------------------
(* The analysis manager runs: analyses are requested through analyze.      *)

InitAM ==
    \* The registrations a run may start with: none, or the equality and hash
    \* vtables registered for Signature with dynamic_interfaces!.
    LET SignatureRegistered ==
            [version |-> 1, arc |-> 0,
             entries |-> dynamic_interfaces("Signature", {"ObjectEq", "ObjectHash"})]
    IN
    /\ holder = "AnalysisManager"
    /\ Idle("IR")
    /\ Idle("Builder")
    /\ global \in {Registry_default, SignatureRegistered}
    /\ local = [t \in Threads |-> LocalRegistry_uninit]
    /\ Idle("Threads")
    /\ Idle("PM")
    /\ Idle("AM")
    /\ Idle("Interp")
    /\ Idle("Machine")

\* A cache entry holds a key that is equal, as a Signature, to key.
HasEqualSignature(c, key) ==
    \E k \in 1..Len(c) : Signature_eq(c[k][1].sig, key)

\* analyze(key, op); the outcome of the pass's apply is either one.
AMAnalyze ==
    \* The operations handed to analyze.
    LET AnalyzedOps == {LeafOp("Func", <<>>)}
    IN
    /\ holder = "AnalysisManager"
    /\ \E key \in AnalysisKeys, op \in AnalyzedOps, ok \in BOOLEAN :
          LET c == AnalysisManager_analyze(am, key, op, ok)
          IN  /\ applies[key] < MaxAnalyses
              /\ am' = c.self
              /\ lastAnalyze' = [called |-> TRUE, key |-> key,
                                 wasCached |-> HasEqualSignature(am.cached, key),
                                 applied |-> c.applied, ok |-> c.ok,
                                 before |-> am.cached]
              /\ applies' = [applies EXCEPT ![key] = IF c.applied /\ c.ok
                                                     THEN @ + 1 ELSE @]
    /\ UNCHANGED <<holder, lastAsk>>
    /\ UNCHANGED <<region, ir, minted, deletes, lastDelete, builder,
                   finished, checked, lastBuild, global, local, wlock,
                   thread, registered, pm, lastPush, lastWalk, interp,
                   lastJoin, machine, lastStep>>

\* ask(Box::new(key)) with a separately constructed key.
AMAsk ==
    \* AnalysisManager::ask on a boxed key: <<>> for None, <<pass>> for
    \* Some(&pass).
    LET AnalysisManager_ask(a, key) ==
            IF ~Cache_contains_key(a.cached, key) THEN <<>>
            ELSE LET k == CHOOSE k \in Cache_find(a.cached, key) : TRUE
                 IN  <<a.cached[k][2]>>
    IN
    /\ holder = "AnalysisManager"
    /\ \E key \in AnalysisKeys :
          lastAsk' = [called |-> TRUE, key |-> key,
                      ret |-> AnalysisManager_ask(am, Box_new(am.cached, key))]
    /\ UNCHANGED <<holder, am, lastAnalyze, applies>>
    /\ UNCHANGED <<region, ir, minted, deletes, lastDelete, builder,
                   finished, checked, lastBuild, global, local, wlock,
                   thread, registered, pm, lastPush, lastWalk, interp,
                   lastJoin, machine, lastStep>>

NextAM == AMAnalyze \/ AMAsk

SpecAM == InitAM /\ [][NextAM]_vars

\* C10 -- a second analyze(k, op) for a key k that is already cached does
\* not recompute: the pass's apply runs exactly once per distinct key.
C10_AnalyzeOnce ==
    /\ lastAnalyze.wasCached => ~lastAnalyze.applied
    /\ \A k \in AnalysisKeys : applies[k] <= 1

\* C11 -- once analyze(k, op) has succeeded, ask of a key equal to k, one
\* constructed separately included, returns the cached pass, and no two
\* entries of the cache hold equal Signatures.
C11_AskFindsEqualKey ==
    /\ (lastAsk.called /\ HasEqualSignature(am.cached, lastAsk.key))
           => /\ lastAsk.ret # <<>>
              /\ Signature_eq(lastAsk.ret[1].key, lastAsk.key)
    /\ \A i, j \in 1..Len(am.cached) :
           Signature_eq(am.cached[i][1].sig, am.cached[j][1].sig) => i = j

\* C37 -- when the apply of the analysis pass returns an error, analyze
\* returns that error and the cache is as it was before the call: no entry
\* is inserted and none is replaced.
C37_FailedAnalyzeKeepsCache ==
    (lastAnalyze.called /\ lastAnalyze.applied /\ ~lastAnalyze.ok)
        => am.cached = lastAnalyze.before

\* An analysis failed for a key whose Signature the cache already held.
C37_Witness ==
    /\ lastAnalyze.called
    /\ lastAnalyze.applied
    /\ ~lastAnalyze.ok
    /\ lastAnalyze.wasCached
    /\ am.cached = lastAnalyze.before
    /\ Len(am.cached) >= 1

----------------------------------------------------------------------------
(* The interpreter runs: LatticeInterpreterPass::apply on a function, once  *)
(* for each of two environments.                                           *)

\* %2 = Add(%0, %1); Return(%2) over two parameters.
AddReturnFunc ==
    FuncWithBody(2, <<LeafOp("Addi", <<0, 1>>), LeafOp("Return", <<2>>)>>)

InitInterp ==
    \* The registry after the dynamic_interfaces! of concrete_0.
    LET LatticeRegistered ==
            [version |-> 1, arc |-> 0,
             entries |-> dynamic_interfaces("Return", {LatticeSemantics})
                            \cup dynamic_interfaces("Addi", {LatticeSemantics})]
    IN
    /\ holder = "Interpreter"
    /\ Idle("IR")
    /\ Idle("Builder")
    /\ global \in {Registry_default, LatticeRegistered}
    /\ local = [t \in Threads |-> LocalRegistry_uninit]
    /\ Idle("Threads")
    /\ Idle("PM")
    /\ Idle("AM")
    /\ Idle("Interp")
    /\ Idle("Machine")

\* apply of the pass of Signature(env1) and of the pass of Signature(env2)
\* on one operation, in one build.
InterpApply ==
    \* LatticeInterpreterPass::apply for the key's env: the result of the step
    \* and, if it is Ok, the frame cloned from the interpreter and its get_ret;
    \* env is the interpreter's env when step returned.
    LET LatticeInterpreterPass_apply(env, op, build) ==
            \* Interpreter::new(op, env) followed by step(op): active is block 0.
            LET Interpreter_step(op1, env1, build1) ==
                    StepItems(env1, Region_get_block_iter(op1.regions[1], 0), build1)
            IN
            LET r == Interpreter_step(op, env, build)
            IN  IF r.ret = Ok
                THEN [ret |-> Ok, result |-> <<[vs |-> r.env]>>,
                      get_ret |-> InterpreterFrame_get_ret([vs |-> r.env]),
                      env |-> r.env]
                ELSE [ret |-> r.ret, result |-> <<>>, get_ret |-> <<>>,
                      env |-> r.env]
    IN
    \* The values of a Signature's env.
    LET EnvValues == {<<>>, <<Bottom>>, <<Int64>>, <<Float64>>, <<Value(2)>>}
    IN
    \* The functions analysed: the one above, the function of concrete_0,
    \* a Return of %0 with one parameter and with none, and an Add followed
    \* by a Return of a Var nothing defines.
    LET InterpOps ==
            {AddReturnFunc,
             FuncWithBody(2, <<LeafOp("Addi", <<0, 1>>), LeafOp("Addi", <<2, 2>>),
                               LeafOp("Return", <<3>>)>>),
             FuncWithBody(1, <<LeafOp("Return", <<0>>)>>),
             FuncWithBody(0, <<LeafOp("Return", <<0>>)>>),
             FuncWithBody(2, <<LeafOp("Addi", <<0, 1>>), LeafOp("Return", <<4>>)>>)}
    IN
    /\ holder = "Interpreter"
    /\ ~interp.run
    /\ \E op \in InterpOps, build \in Builds, n \in 0..MaxEnv :
          \E env1, env2 \in [1..n -> EnvValues] :
              interp' = [run |-> TRUE, op |-> op, build |-> build,
                         env1 |-> env1, env2 |-> env2,
                         r1 |-> LatticeInterpreterPass_apply(env1, op, build),
                         r2 |-> LatticeInterpreterPass_apply(env2, op, build)]
    /\ UNCHANGED <<holder, lastJoin, machine, lastStep>>
    /\ UNCHANGED <<region, ir, minted, deletes, lastDelete, builder,
                   finished, checked, lastBuild, global, local, wlock,
                   thread, registered, pm, lastPush, lastWalk, am,
                   lastAnalyze, applies, lastAsk>>

NextInterp == InterpApply

SpecInterp == InitInterp /\ [][NextInterp]_vars

\* The LatticeSemantics of Addi and Return are registered.
RulesRegistered ==
    query_ref("Addi", LatticeSemantics) /\ query_ref("Return", LatticeSemantics)

\* C15 -- for the function with parameters %0, %1 and body %2 = Add(%0, %1);
\* Return(%2), the analysis of a Signature with initial values (a, b) yields
\* a frame whose get_ret is the Add rule applied to (a, b): Int64 for
\* (Int64, Int64) and Float64 for (Int64, Float64).
C15_AddReturnFrame ==
    (/\ interp.run
     /\ RulesRegistered
     /\ interp.op = AddReturnFunc
     /\ Len(interp.env1) = 2
     /\ interp.env1[1] # <<>>
     /\ interp.env1[2] # <<>>
     /\ Addi_propagate(<<interp.env1[1][1], interp.env1[2][1]>>) # <<>>)
        => /\ interp.r1.ret = Ok
           /\ interp.r1.get_ret
                 = Addi_propagate(<<interp.env1[1][1], interp.env1[2][1]>>)
           /\ interp.env1 = <<<<Int64>>, <<Int64>>>>
                 => interp.r1.get_ret = <<Int64>>
           /\ interp.env1 = <<<<Int64>>, <<Float64>>>>
                 => interp.r1.get_ret = <<Float64>>

\* The function analysed with (Int64, Float64): the frame returns Float64.
C15_Witness ==
    /\ interp.run
    /\ RulesRegistered
    /\ interp.op = AddReturnFunc
    /\ interp.env1 = <<<<Int64>>, <<Float64>>>>
    /\ interp.r1.ret = Ok
    /\ interp.r1.get_ret = <<Float64>>

\* e1 <= e2 pointwise, for environments with a value at every position.
EnvLeq(e1, e2) ==
    \* The order of the lattice that join induces: a <= b iff join(a, b) = b.
    LET Leq(a, b) == ArithLattice_join(a, b) = b
    IN
    /\ Len(e1) = Len(e2)
    /\ \A k \in 1..Len(e1) :
          /\ e1[k] # <<>>
          /\ e2[k] # <<>>
          /\ Leq(e1[k][1], e2[k][1])

C30_StepFailsUnbound ==
    interp.run =>
        LET items == Region_get_block_iter(interp.op.regions[1], 0)
        IN  \A k \in 1..Len(items) :
                LET met == StepItems(interp.env1, SubSeq(items, 1, k - 1),
                                     interp.build)
                    o == items[k].op
                    Unresolved ==
                        \E j \in 1..Len(o.operands) :
                            \/ o.operands[j] >= Len(met.env)
                            \/ met.env[o.operands[j] + 1] = <<>>
                IN  (/\ met.ret = Ok
                     /\ \/ ~query_ref(o.intrinsic, LatticeSemantics)
                        \/ Unresolved)
                        => /\ interp.r1.ret \notin {Ok, Panic}
                           /\ interp.r1.env = met.env

\* The Add of the last function analysed binds %2 and its Return of %4 fails.
C30_Witness ==
    /\ interp.run
    /\ RulesRegistered
    /\ Len(Region_get_block_iter(interp.op.regions[1], 0)) = 2
    /\ interp.r1.ret = "No type for SSA variable."
    /\ Len(interp.r1.env) = Len(interp.env1) + 1

\* C31 -- for every operation that Interpreter::step processes, with
\* defining Var v and propagate result l: afterwards get(v) returns l and
\* every other Var is bound as it was before the operation, whatever the
\* length of the env and whatever v, Var 0 included.
C31_InsertBindsOnlyV ==
    interp.run =>
        LET items == Region_get_block_iter(interp.op.regions[1], 0)
            \* Interpreter::get on an env: <<l>> for Ok(&l), <<>> for the bail.
            get(e, w) == IF w < Len(e) THEN e[w + 1] ELSE <<>>
        IN  \A k \in 1..Len(items) :
                LET met == StepItems(interp.env1, SubSeq(items, 1, k - 1),
                                     interp.build)
                    after == StepItems(interp.env1, SubSeq(items, 1, k),
                                       interp.build)
                    v == items[k].var
                    o == items[k].op
                    Resolved ==
                        \A j \in 1..Len(o.operands) :
                            get(met.env, o.operands[j]) # <<>>
                    l == IF o.intrinsic = "Addi"
                         THEN Addi_propagate([j \in 1..Len(o.operands) |->
                                                 get(met.env, o.operands[j])[1]])
                         ELSE Return_propagate([j \in 1..Len(o.operands) |->
                                                   get(met.env, o.operands[j])[1]])
                IN  (/\ met.ret = Ok
                     /\ query_ref(o.intrinsic, LatticeSemantics)
                     /\ Resolved
                     /\ l # <<>>)
                        => /\ after.ret = Ok
                           /\ get(after.env, v) = l
                           /\ \A w \in 0..(Len(after.env) + 1) :
                                 w # v => get(after.env, w) = get(met.env, w)

----------------------------------------------------------------------------
(* The lattice runs: join applied to two elements.                         *)

\* The elements joined.
LatticeElems ==
    {Bottom, Int64, Float64, Union(<<Int64>>), Union(<<Float64, Int64>>),
     Union(<<Int64, Float64>>)} \cup {Value(n) : n \in 1..MaxValue}

InitLattice ==
    /\ holder = "Lattice"
    /\ Idle("IR")
    /\ Idle("Builder")
    /\ Idle("Registry")
    /\ Idle("PM")
    /\ Idle("AM")
    /\ Idle("Interp")
    /\ Idle("Machine")

\* a.join(&b) with the impl of tests/concrete.rs.
LatticeJoin ==
    /\ holder = "Lattice"
    /\ \E a, b \in LatticeElems :
          lastJoin' = [called |-> TRUE, impl |-> "concrete", a |-> a, b |-> b,
                       ret |-> ArithLattice_join(a, b)]
    /\ UNCHANGED <<holder, interp, machine, lastStep>>
    /\ UNCHANGED <<region, ir, minted, deletes, lastDelete, builder,
                   finished, checked, lastBuild, global, local, wlock,
                   thread, registered, pm, lastPush, lastWalk, am,
                   lastAnalyze, applies, lastAsk>>

\* a.join(&b) with the impl of tests/typeinf.rs.
typeinf_LatticeJoin ==
    \* LatticeJoin for ArithLattice, tests/typeinf.rs (the enum without Value).
    LET typeinf_ArithLattice_join(self, other) ==
            IF self.tag = "Bottom" THEN other
            ELSE IF other.tag = "Bottom" THEN self
            ELSE IF self.tag = "Int64" /\ other.tag = "Float64"
            THEN Union(<<self, other>>)
            ELSE IF self.tag = "Float64" /\ other.tag = "Int64"
            THEN Union(<<other, self>>)
            ELSE IF self.tag = "Union" /\ other.tag = "Float64"
            THEN IF Float64 \in Range(self.elems) THEN self
                 ELSE Union(Append(self.elems, Float64))
            ELSE self
    IN
    \* The enum of tests/typeinf.rs has no Value.
    LET typeinf_LatticeElems == {a \in LatticeElems : a.tag # "Value"}
    IN
    /\ holder = "Lattice"
    /\ \E a, b \in typeinf_LatticeElems :
          lastJoin' = [called |-> TRUE, impl |-> "typeinf", a |-> a, b |-> b,
                       ret |-> typeinf_ArithLattice_join(a, b)]
    /\ UNCHANGED <<holder, interp, machine, lastStep>>
    /\ UNCHANGED <<region, ir, minted, deletes, lastDelete, builder,
                   finished, checked, lastBuild, global, local, wlock,
                   thread, registered, pm, lastPush, lastWalk, am,
                   lastAnalyze, applies, lastAsk>>

NextLattice == LatticeJoin \/ typeinf_LatticeJoin

SpecLattice == InitLattice /\ [][NextLattice]_vars

\* C17 -- join is idempotent on the ArithLattice of the tests: join(a, a)
\* is a for every element a, Value(n) and the Union lists included.
C17_JoinIdempotent ==
    (lastJoin.called /\ lastJoin.a = lastJoin.b) => lastJoin.ret = lastJoin.a


----------------------------------------------------------------------------
(* interp::Interpreter -- the older interpreter: a state machine stepped   *)
(* over an ExtIR, with a block-local env, a global env and a queue of      *)
(* block frames.  Envs are indexed by Var id + 1; <<>> is an absent entry. *)

\* The machine is [ir, meta, state, sig, err, active, block_queue, env,
\* analysis, trace]: state is the tag of InterpreterState, sig the Meta of
\* Waiting and err the InterpreterError of Error.

\* The caller's LatticeJoin: the join of the chain 1 < 2 < ..; <<v>> is
\* Ok(v) and <<>> an Err.
Chain_join(a, b) == <<IF a >= b THEN a ELSE b>>

\* vs.iter().map(|v| self.get(v)).collect::<Option<Vec<_>>>() with
\* Interpreter::get, which reads the active frame's block_env: <<>> is None.
Interpreter_get(m, vs) ==
    LET env == m.active.block_env
        get(v) == IF v < Len(env) THEN env[v + 1] ELSE <<>>
    IN  IF \E j \in 1..Len(vs) : get(vs[j]) = <<>> THEN <<>>
        ELSE <<[j \in 1..Len(vs) |-> get(vs[j])[1]]>>

\* Interpreter::merge.  self.get(k) reads the active frame's block_env, the
\* map being iterated, so it is always Some(v) for the v at k.
Interpreter_merge(m) ==
    LET loc == m.active.block_env
        fails(k) ==
            /\ Interpreter_get(m, <<k - 1>>) # <<>>
            /\ Chain_join(Interpreter_get(m, <<k - 1>>)[1][1], loc[k][1]) = <<>>
        stop == IF \E k \in 1..Len(loc) : fails(k)
                THEN CHOOSE k \in 1..Len(loc) :
                        fails(k) /\ \A j \in 1..(k - 1) : ~fails(j)
                ELSE Len(loc) + 1
    IN  [self |-> [m EXCEPT !.env =
                      [k \in 1..Len(loc) |->
                          IF k < stop /\ loc[k] # <<>>
                          THEN Chain_join(Interpreter_get(m, <<k - 1>>)[1][1],
                                          loc[k][1])
                          ELSE m.env[k]]],
         ret |-> IF stop <= Len(loc) THEN "LatticeError" ELSE Ok]

\* BranchPrepare::prepare_branch.  It reads the active frame and the ir
\* only, so its outcome is computed per branch: ret, and frames, which is
\* <<f>> if it pushes the frame f on the queue (merge_insert-ing the entries
\* of f's block_env in the env) and <<>> if it pushes nothing.
Interpreter_prepare_branch(m, br) ==
    LET brts   == Interpreter_get(m, br.args)
        params == m.ir.blocks[br.block + 1].args
        blkts  == Interpreter_get(m, params)
        \* The frame of the target block, its parameters zipped with vals.
        enqueue(vals) ==
            LET n == IF Len(params) < Len(vals) THEN Len(params) ELSE Len(vals)
            IN  [ret |-> Ok,
                 frames |->
                    <<[block_ptr |-> br.block,
                       block_env |-> [k \in 1..Len(m.env) |->
                           IF \E j \in 1..n : params[j] = k - 1
                           THEN <<vals[CHOOSE j \in 1..n : params[j] = k - 1]>>
                           ELSE <<>>],
                       lines |-> ExtIR_get_vars_in_block(m.ir, br.block)]>>]
        joined == [k \in 1..(IF Len(brts[1]) < Len(blkts[1])
                             THEN Len(brts[1]) ELSE Len(blkts[1])) |->
                      Chain_join(brts[1][k], blkts[1][k])]
    IN  IF br.block >= Len(m.ir.blocks)
        THEN [ret |-> Panic, frames |-> <<>>]
        ELSE IF brts = <<>>
        THEN [ret |-> "FailedToPrepareInterpreter", frames |-> <<>>]
        ELSE IF blkts = <<>> THEN enqueue(brts[1])
        ELSE IF brts[1] = blkts[1] THEN [ret |-> Ok, frames |-> <<>>]
        ELSE IF \E k \in 1..Len(joined) : joined[k] = <<>>
        THEN [ret |-> "LatticeError", frames |-> <<>>]
        ELSE enqueue([k \in 1..Len(joined) |-> joined[k][1]])

\* Interpreter::step.  answer is what self.global replies to the ask of a
\* Waiting step: <<>> when global is None or ask returns None, <<t>> for
\* Some(t).  ret is Ok, the error the ? operator returned, or Panic.
\* Mutant: a step that only turns Error into Finished.
Interpreter_step_reviving(m, answer) ==
    [self |-> [m EXCEPT !.state = IF @ = "Error" THEN "Finished" ELSE @],
     ret |-> Ok]

Interpreter_step(m, answer) ==
    \* The caller's Propagation::propagate: <<t>> is Ok(t), <<>> is Err.
    LET propagate(instr) ==
            CASE instr.op.name = "One" -> <<1>>
              [] instr.op.name = "Id" ->
                   IF Interpreter_get(m, instr.args) = <<>> \/ Len(instr.args) # 1
                   THEN <<>>
                   ELSE <<Interpreter_get(m, instr.args)[1][1]>>
              [] OTHER -> <<>>
    IN
    \* The Active arm with lines exhausted: merge?, then
    \* for br in ir.get_branches(block_ptr) { prepare_branch?; break after
    \* the first unconditional one }, then the next frame of the queue.  What
    \* the loop did before a ? returned stays done.
    LET exhausted ==
            LET brs == m.ir.blocks[m.active.block_ptr + 1].branches
                \* The end of the loop: it returned ret after pushing the
                \* frames of pushed, in this order, on the queue.
                next(ret, pushed) ==
                    LET binds(f, k) == pushed[f].block_env[k] # <<>>
                        inserted ==
                            [k \in 1..Len(m.env) |->
                                IF \E f \in 1..Len(pushed) : binds(f, k)
                                THEN pushed[CHOOSE f \in 1..Len(pushed) :
                                        /\ binds(f, k)
                                        /\ \A g \in (f + 1)..Len(pushed) :
                                              ~binds(g, k)].block_env[k]
                                ELSE Interpreter_merge(m).self.env[k]]
                        q == m.block_queue \o pushed
                    IN  IF ret # Ok
                        THEN [self |-> [m EXCEPT !.env = inserted,
                                                 !.block_queue = q],
                              ret |-> ret]
                        ELSE IF q = <<>>
                        THEN [self |-> [m EXCEPT !.env = inserted,
                                                 !.state = "Finished"],
                              ret |-> Ok]
                        ELSE [self |-> [m EXCEPT !.env = inserted,
                                                 !.state = "Active",
                                                 !.active = Head(q),
                                                 !.block_queue = Tail(q)],
                              ret |-> Ok]
                \* The loop over the branches 1..last, outs[b] being the
                \* outcome of prepare_branch on the b-th.
                upto(outs, last) ==
                    LET pushes(b) == outs[b].frames # <<>>
                        pushing == SelectSeq([b \in 1..last |-> b], pushes)
                    IN  next(IF last > 0 THEN outs[last].ret ELSE Ok,
                             [f \in 1..Len(pushing) |->
                                 outs[pushing[f]].frames[1]])
                loop(outs) ==
                    LET halts(b) == outs[b].ret # Ok \/ brs[b].cond = <<>>
                    IN  upto(outs,
                             IF \E b \in 1..Len(brs) : halts(b)
                             THEN CHOOSE b \in 1..Len(brs) :
                                     halts(b) /\ \A c \in 1..(b - 1) : ~halts(c)
                             ELSE Len(brs))
            IN  IF Interpreter_merge(m).ret # Ok THEN Interpreter_merge(m)
                ELSE loop([b \in 1..Len(brs) |->
                              Interpreter_prepare_branch(m, brs[b])])
    IN
    \* The Active arm for the Var el popped from lines.
    LET line(el) ==
            LET popped == [m EXCEPT !.active.lines = Tail(@)]
                at == ExtIR_get_instr(m.ir, el)
                instr == at.ret[1]
                t == propagate(instr)
                vs == Interpreter_get(m, instr.args)
            IN  IF at.panic THEN [self |-> popped, ret |-> Panic]
                ELSE IF at.ret = <<>>
                THEN [self |-> [popped EXCEPT !.state = "Error",
                                              !.err = "FailedToLookupVarInEnv"],
                      ret |-> Ok]
                ELSE IF instr.op.kind = "Intrinsic"
                THEN IF t # <<>>
                     THEN [self |-> [popped EXCEPT
                              !.active.block_env[el + 1] = t,
                              !.state = "Active"],
                           ret |-> Ok]
                     ELSE [self |-> [popped EXCEPT !.state = "Error",
                                                   !.err = "LatticeError"],
                           ret |-> Ok]
                ELSE IF vs = <<>>
                THEN [self |-> [popped EXCEPT
                         !.state = "Error",
                         !.err = "NotAllArgumentsResolvedInCall"],
                      ret |-> Ok]
                ELSE [self |-> [m EXCEPT
                         !.state = "Waiting",
                         !.sig = <<[name |-> instr.op.name, vs |-> vs[1]]>>],
                      ret |-> Ok]
    IN
    IF m.state = "Waiting"
    THEN IF m.active.lines = <<>> THEN [self |-> m, ret |-> Panic]
         ELSE IF answer = <<>>
         THEN [self |-> [m EXCEPT !.active.lines = Tail(@)], ret |-> Ok]
         ELSE [self |-> [m EXCEPT
                  !.active.lines = Tail(@),
                  !.active.block_env[Head(m.active.lines) + 1] = answer,
                  !.state = "Active", !.sig = <<>>],
               ret |-> Ok]
    ELSE IF m.state = "Active"
    THEN IF m.active.lines = <<>> THEN exhausted
         ELSE line(Head(m.active.lines))
    ELSE [self |-> m, ret |-> Ok]


\* Mutant: finish hands the frame out whatever the state.
Interpreter_finish_any(m) ==
    [self |-> [m EXCEPT !.trace = <<>>, !.analysis = <<>>],
     ret |-> Ok,
     frame |-> <<[vs |-> <<>>, analysis |-> m.analysis, trace |-> m.trace]>>]

\* Interpreter::finish: frame is <<f>> for Ok(f).
Interpreter_finish(m) ==
    LET held(k) == m.env[k] # <<>>
        ks == SelectSeq([k \in 1..Len(m.env) |-> k], held)
    IN  IF m.state = "Finished"
        THEN [self |-> [m EXCEPT !.trace = <<>>, !.analysis = <<>>],
              ret |-> Ok,
              frame |-> <<[vs |-> [j \in 1..Len(ks) |-> m.env[ks[j]][1]],
                           analysis |-> m.analysis, trace |-> m.trace]>>]
        ELSE [self |-> m, ret |-> "TriedToFinishWhenInterpreterNotFinished",
              frame |-> <<>>]

\* The lattice of a machine run is the chain 1 < .. < MaxLevel, and the
\* Meta handed to prepare holds at most MaxArity values.
MaxLevel == 2

MaxArity == 2

InitMachine ==
    LET Instr(kind, name, args) ==
            [op |-> [kind |-> kind, name |-> name], args |-> args,
             attrs |-> <<>>]
        Blk(args, insts, branches) ==
            [args |-> args, insts |-> insts, branches |-> branches]
        Br(cond, to, args) == [cond |-> cond, block |-> to, args |-> args]
    IN
    \* The ExtIRs interpreted, as the push_ calls of ir.rs build them.
    LET Programs ==
            {\* %0 a parameter; %1 = One(); %2 = Id(%1)
             [defs |-> <<<<0, -1>>, <<0, 0>>, <<0, 1>>>>,
              blocks |-> <<Blk(<<0>>, <<Instr("Intrinsic", "One", <<>>),
                                        Instr("Intrinsic", "Id", <<1>>)>>, <<>>)>>],
             \* %0 = One(); %1 = f(%0), a ModuleRef; %2 = Id(%0)
             [defs |-> <<<<0, 0>>, <<0, 1>>, <<0, 2>>>>,
              blocks |-> <<Blk(<<>>, <<Instr("Intrinsic", "One", <<>>),
                                       Instr("ModuleRef", "f", <<0>>),
                                       Instr("Intrinsic", "Id", <<0>>)>>, <<>>)>>],
             \* block 0: %0 = One(); br 1.  block 1: %1 = One()
             [defs |-> <<<<0, 0>>, <<1, 0>>>>,
              blocks |-> <<Blk(<<>>, <<Instr("Intrinsic", "One", <<>>)>>,
                               <<Br(<<>>, 1, <<>>)>>),
                           Blk(<<>>, <<Instr("Intrinsic", "One", <<>>)>>, <<>>)>>],
             \* block 0: %0 a parameter; br 1 (%0).
             \* block 1: %1 a parameter; %2 = One(); br 1 (%2)
             [defs |-> <<<<0, -1>>, <<1, -1>>, <<1, 0>>>>,
              blocks |-> <<Blk(<<0>>, <<>>, <<Br(<<>>, 1, <<0>>)>>),
                           Blk(<<1>>, <<Instr("Intrinsic", "One", <<>>)>>,
                               <<Br(<<>>, 1, <<2>>)>>)>>],
             \* block 0: %0, %1 parameters; br 1 (%0) if %0; br 1 (%1).
             \* block 1: %2 a parameter; %3 = Id(%2)
             [defs |-> <<<<0, -1>>, <<0, -1>>, <<1, -1>>, <<1, 0>>>>,
              blocks |-> <<Blk(<<0, 1>>, <<>>,
                               <<Br(<<0>>, 1, <<0>>), Br(<<>>, 1, <<1>>)>>),
                           Blk(<<2>>, <<Instr("Intrinsic", "Id", <<2>>)>>, <<>>)>>],
             \* %0 = Fail(); %1 = One()
             [defs |-> <<<<0, 0>>, <<0, 1>>>>,
              blocks |-> <<Blk(<<>>, <<Instr("Intrinsic", "Fail", <<>>),
                                       Instr("Intrinsic", "One", <<>>)>>, <<>>)>>]}
    IN
    \* AbstractInterpreter::prepare: ok is FALSE for
    \* Err(FailedToPrepareInterpreter).
    LET Interpreter_prepare(vs, e) ==
            LET zipped == {j \in 1..Len(vs) : j <= Len(e.blocks[1].args)}
                bound(k) == \E j \in zipped : e.blocks[1].args[j] = k - 1
                val(k) == vs[CHOOSE j \in zipped : e.blocks[1].args[j] = k - 1]
                initial_env ==
                    [k \in 1..Len(e.defs) |->
                        IF bound(k) THEN <<val(k)>> ELSE <<>>]
            IN  [ok |-> Len(e.blocks[1].args) = Len(vs),
                 self |-> [ir |-> e, meta |-> vs, state |-> "Active",
                           sig |-> <<>>, err |-> "none",
                           active |-> [block_ptr |-> 0,
                                       block_env |-> initial_env,
                                       lines |-> ExtIR_get_vars_in_block(e, 0)],
                           block_queue |-> <<>>,
                           env |-> [k \in 1..Len(e.defs) |-> <<>>],
                           analysis |-> <<>>, trace |-> <<>>]]
    IN
    /\ holder = "Machine"
    /\ Idle("IR")
    /\ Idle("Builder")
    /\ Idle("Registry")
    /\ Idle("PM")
    /\ Idle("AM")
    /\ Idle("Interp")
    /\ machine \in
          {Interpreter_prepare(c[2], c[1]).self :
              c \in {d \in Programs \X UNION {[1..n -> 1..MaxLevel] :
                                                   n \in 0..MaxArity} :
                        Interpreter_prepare(d[2], d[1]).ok}}
    /\ lastStep = Unset("lastStep")

\* One call of step by the driver polling the interpreter.
MachineStep ==
    /\ holder = "Machine"
    /\ lastStep.ret # Panic
    /\ \E answer \in IF machine.state = "Waiting"
                     THEN {<<>>} \cup {<<t>> : t \in 1..MaxLevel}
                     ELSE {<<>>} :
          LET r == Interpreter_step(machine, answer)
              entered == machine.state # "Waiting" /\ r.self.state = "Waiting"
          IN  /\ machine' = r.self
              /\ lastStep' =
                    [call |-> "step", before |-> machine, answer |-> answer,
                     ret |-> r.ret, frame |-> <<>>,
                     waited |-> IF entered THEN <<Head(r.self.active.lines)>>
                                ELSE lastStep.waited,
                     pending |-> IF entered THEN Tail(r.self.active.lines)
                                 ELSE lastStep.pending]
    /\ UNCHANGED <<holder, interp, lastJoin>>
    /\ UNCHANGED <<region, ir, minted, deletes, lastDelete, builder,
                   finished, checked, lastBuild, global, local, wlock,
                   thread, registered, pm, lastPush, lastWalk, am,
                   lastAnalyze, applies, lastAsk>>

\* One call of finish.
MachineFinish ==
    /\ holder = "Machine"
    /\ lastStep.ret # Panic
    /\ LET r == Interpreter_finish(machine)
       IN  /\ machine' = r.self
           /\ lastStep' = [lastStep EXCEPT !.call = "finish",
                                           !.before = machine,
                                           !.answer = <<>>,
                                           !.ret = r.ret,
                                           !.frame = r.frame]
    /\ UNCHANGED <<holder, interp, lastJoin>>
    /\ UNCHANGED <<region, ir, minted, deletes, lastDelete, builder,
                   finished, checked, lastBuild, global, local, wlock,
                   thread, registered, pm, lastPush, lastWalk, am,
                   lastAnalyze, applies, lastAsk>>

\* One call of set_analysis.
MachineSetAnalysis ==
    /\ holder = "Machine"
    /\ lastStep.ret # Panic
    /\ \E c \in {<<>>, <<"c">>} :
          /\ machine' = [machine EXCEPT !.analysis = c]
          /\ lastStep' = [lastStep EXCEPT !.call = "set_analysis",
                                          !.before = machine,
                                          !.answer = <<>>,
                                          !.ret = Ok,
                                          !.frame = <<>>]
    /\ UNCHANGED <<holder, interp, lastJoin>>
    /\ UNCHANGED <<region, ir, minted, deletes, lastDelete, builder,
                   finished, checked, lastBuild, global, local, wlock,
                   thread, registered, pm, lastPush, lastWalk, am,
                   lastAnalyze, applies, lastAsk>>

NextMachine == MachineStep \/ MachineFinish \/ MachineSetAnalysis

SpecMachine == InitMachine /\ [][NextMachine]_vars

\* The driver polls: it calls step again as long as a call of step can
\* change the interpreter.
SpecMachineFair == SpecMachine /\ WF_vars(MachineStep)


\* C21 -- finish on an interpreter that is not Finished returns the error
\* TriedToFinishWhenInterpreterNotFinished and leaves its state, env, trace
\* and analysis as they were; on a Finished one it returns the frame of the
\* env's values in increasing Var id.
C21_FinishOnlyWhenFinished ==
    lastStep.call = "finish" =>
        LET was == lastStep.before
            held == {k \in 1..Len(was.env) : was.env[k] # <<>>}
        IN  IF was.state # "Finished"
            THEN /\ lastStep.ret = "TriedToFinishWhenInterpreterNotFinished"
                 /\ lastStep.frame = <<>>
                 /\ machine.state = was.state
                 /\ machine.sig = was.sig
                 /\ machine.err = was.err
                 /\ machine.env = was.env
                 /\ machine.trace = was.trace
                 /\ machine.analysis = was.analysis
            ELSE /\ lastStep.ret = Ok
                 /\ Len(lastStep.frame) = 1
                 /\ Len(lastStep.frame[1].vs) = Cardinality(held)
                 /\ \A k \in held :
                       lastStep.frame[1].vs[Cardinality({j \in held : j <= k})]
                           = was.env[k][1]

\* finish is called on an Active interpreter that holds an analysis and has
\* merged a block into its env.
C21_Witness ==
    /\ lastStep.call = "finish"
    /\ lastStep.before.state = "Active"
    /\ lastStep.before.analysis # <<>>
    /\ \E k \in 1..Len(lastStep.before.env) : lastStep.before.env[k] # <<>>


\* C26 -- when a step exhausts a block, every Var held by the block-local
\* env ends in the global env with the join of its previous global value
\* and its local value, or with its local value if the global env did not
\* hold it; the entries of the other Vars are unchanged (the parameters the
\* same step binds for the successors it enqueues are left aside).
C26_MergeJoinsIntoEnv ==
    (/\ lastStep.call = "step"
     /\ lastStep.ret = Ok
     /\ lastStep.before.state = "Active"
     /\ lastStep.before.active.lines = <<>>)
        => LET was == lastStep.before
               loc == was.active.block_env
               brs == was.ir.blocks[was.active.block_ptr + 1].branches
               rebound == UNION {Range(was.ir.blocks[brs[b].block + 1].args) :
                                    b \in 1..Len(brs)}
               lub(a, b) == IF a >= b THEN a ELSE b
           IN  \A k \in 1..Len(loc) :
                   (k - 1) \notin rebound
                       => machine.env[k] =
                             IF loc[k] = <<>> THEN was.env[k]
                             ELSE IF was.env[k] = <<>> THEN loc[k]
                             ELSE <<lub(was.env[k][1], loc[k][1])>>


\* C27 -- a step that exhausts a block enqueues a frame for the target of
\* every branch of the block, its parameters bound positionally to values
\* that are at least the local values of the branch's arguments; the blocks
\* queued earlier stay ahead of the new ones; and the interpreter becomes
\* Finished only with an empty queue.
C27_SuccessorsEnqueued ==
    (/\ lastStep.call = "step"
     /\ lastStep.ret = Ok
     /\ lastStep.before.state = "Active"
     /\ lastStep.before.active.lines = <<>>)
        => LET was == lastStep.before
               brs == was.ir.blocks[was.active.block_ptr + 1].branches
               all == (IF machine.state = "Finished" THEN <<>>
                       ELSE <<machine.active>>) \o machine.block_queue
               bindsArgs(f, br) ==
                   LET params == was.ir.blocks[br.block + 1].args
                   IN  \A j \in 1..Len(params) :
                           /\ j <= Len(br.args)
                           /\ f.block_env[params[j] + 1] # <<>>
                           /\ f.block_env[params[j] + 1][1]
                                 >= was.active.block_env[br.args[j] + 1][1]
           IN  /\ \A b \in 1..Len(brs) :
                     \E f \in (Len(was.block_queue) + 1)..Len(all) :
                         /\ all[f].block_ptr = brs[b].block
                         /\ bindsArgs(all[f], brs[b])
               /\ Len(all) >= Len(was.block_queue)
               /\ SubSeq(all, 1, Len(was.block_queue)) = was.block_queue
               /\ machine.state = "Finished" => machine.block_queue = <<>>


\* C28 -- over an ExtIR without cross-function calls (the lattice of the
\* run is a finite chain and its join is monotone and idempotent), calling
\* step again and again eventually brings the interpreter to Finished or
\* Error.
C28_StepTerminates ==
    (\A b \in 1..Len(machine.ir.blocks) :
        \A k \in 1..Len(machine.ir.blocks[b].insts) :
            machine.ir.blocks[b].insts[k].op.kind # "ModuleRef")
        => <>(machine.state \in {"Finished", "Error"})


\* C29 -- an Active interpreter that reaches a cross-function call with
\* all its arguments resolved enters Waiting with the signature of the
\* call; a step taken in Waiting while the answer is unavailable does not
\* abort, stays Waiting and keeps every operation of the block that was
\* pending behind the call; a step taken in Waiting when the answer is
\* available binds it to the Var of the call and returns to Active.
C29_WaitingKeepsBlock ==
    lastStep.call = "step" =>
        LET was == lastStep.before
            at == ExtIR_get_instr(was.ir, Head(was.active.lines)).ret
            resolved(vs) ==
                \A j \in 1..Len(vs) : was.active.block_env[vs[j] + 1] # <<>>
        IN  /\ (/\ was.state = "Active"
                /\ was.active.lines # <<>>
                /\ at # <<>>
                /\ at[1].op.kind = "ModuleRef"
                /\ resolved(at[1].args))
                   => /\ machine.state = "Waiting"
                      /\ machine.sig =
                            <<[name |-> at[1].op.name,
                               vs |-> [j \in 1..Len(at[1].args) |->
                                   was.active.block_env[at[1].args[j] + 1][1]]]>>
            /\ (was.state = "Waiting" /\ lastStep.answer = <<>>)
                   => /\ lastStep.ret = Ok
                      /\ machine.state = "Waiting"
                      /\ Range(lastStep.pending)
                            \subseteq Range(machine.active.lines)
            /\ (was.state = "Waiting" /\ lastStep.answer # <<>>)
                   => /\ lastStep.ret = Ok
                      /\ machine.state = "Active"
                      /\ machine.active.block_env[lastStep.waited[1] + 1]
                            = lastStep.answer

\* C38 -- Finished and Error are absorbing: a step of an interpreter that is
\* Finished or Error returns Ok and leaves the state, the active frame, the
\* block queue and the env as they were; a propagate that fails puts the
\* interpreter in Error; and no call takes the interpreter out of Error or
\* out of Finished.
C38_TerminalStatesAbsorb ==
    /\ [](lastStep.call = "step" =>
            LET was == lastStep.before
                at == ExtIR_get_instr(was.ir, Head(was.active.lines)).ret
                fails(instr) ==
                    \/ instr.op.name \notin {"One", "Id"}
                    \/ /\ instr.op.name = "Id"
                       /\ \/ Len(instr.args) # 1
                          \/ \E j \in 1..Len(instr.args) :
                                was.active.block_env[instr.args[j] + 1] = <<>>
            IN  /\ was.state \in {"Finished", "Error"}
                      => /\ lastStep.ret = Ok
                         /\ machine.state = was.state
                         /\ machine.err = was.err
                         /\ machine.active = was.active
                         /\ machine.block_queue = was.block_queue
                         /\ machine.env = was.env
                /\ (/\ was.state = "Active"
                    /\ was.active.lines # <<>>
                    /\ at # <<>>
                    /\ at[1].op.kind = "Intrinsic"
                    /\ fails(at[1]))
                       => /\ machine.state = "Error"
                          /\ machine.err = "LatticeError")
    /\ [][/\ machine.state = "Error" => machine'.state = "Error"
          /\ machine.state = "Finished" => machine'.state = "Finished"]_vars

\* A step was made by an interpreter that a failed propagate had put in
\* Error with a frame still on its way.
C38_Witness ==
    /\ lastStep.call = "step"
    /\ lastStep.before.state = "Error"
    /\ lastStep.before.err = "LatticeError"
    /\ lastStep.before.active.lines # <<>>
    /\ machine.state = "Error"

============================================================================
